---- MODULE Spec2Model ----
(***************************************************************************)
(* A model of the list-query builder (ListQuery), its compiler             *)
(* (_build_list_query) and the three strategies it drives: OrderByStrategy,*)
(* OffsetStrategy and KeysetStrategy.                                      *)
(*                                                                         *)
(* Python values are modelled as follows.                                  *)
(*   - Optional[T]: None is the empty sequence, a present value v is <<v>>.*)
(*   - a scalar is a record [k, n]: k is its Python type ("int", "str" or  *)
(*     "null" for None), n an integer.  The str value with n in 0..9 is the*)
(*     one-digit decimal string of n; a str with n >= NonNumeric is a      *)
(*     string that int() rejects (such as "abc").                          *)
(*   - a dict is the sequence of its [key, val] items in iteration order.  *)
(*   - SQLAlchemy expressions are records (see "ordering items" and        *)
(*     "predicates").                                                      *)
(***************************************************************************)
EXTENDS Integers, Sequences, FiniteSets, TLC

(* ------------------------------ bounds --------------------------------- *)
\* largest size handed to limit() / paging() / KeysetStrategy.apply
MaxSize == 2
\* largest page number handed to paging()
MaxPage == 2
\* largest integer stored in a column of a row / carried by a cursor
MaxVal == 2
\* number of rows of the static snapshot walked page by page
MaxRows == 3
\* largest page and size handed to OffsetStrategy.apply directly
MaxApplyPage == 3
MaxApplySize == 10
\* longest directive list handed to OrderByStrategy.apply directly
MaxItems == 3

(* ------------------------------ Optional -------------------------------- *)
None == <<>>
Some(v) == <<v>>
IsNone(o) == o = <<>>
Get(o) == o[1]

(* ------------------------------ scalars --------------------------------- *)
\* first n of a str that is not a decimal numeral
NonNumeric == 10
IntV(n) == [k |-> "int", n |-> n]
StrV(n) == [k |-> "str", n |-> n]
NullV == [k |-> "null", n |-> 0]

(* --------------------- the relation (schema introspection) -------------- *)
\* the target model of the builders of this model (ListQuery.model)
Models == {"PerfResult"}
\* the mapped columns of a model, mapper.column_attrs: PerfResult, a model
\* with a composite primary key, and a mapper without columns or primary key
ModelKeys(model) ==
    CASE model = "PerfResult" -> {"id", "category", "value2"}
      [] model = "CompositePK" -> {"tenant_id", "item_id", "value"}
      [] OTHER -> {}
\* column.type.python_type of a mapped column
PythonType(key) == IF key = "category" THEN "str" ELSE "int"
\* mapper.primary_key, in declared order
PrimaryKey(model) ==
    CASE model = "PerfResult" -> <<"id">>
      [] model = "CompositePK" -> <<"tenant_id", "item_id">>
      [] OTHER -> <<>>

(* --------------------------- ordering items ----------------------------- *)
(* One record shape for everything that can stand in an order_by list:     *)
(*   cls      "str" | "enum" | "attr" (InstrumentedAttribute) |            *)
(*            "unary" (UnaryExpression) | "col" (other ColumnElement) |    *)
(*            "func" | "text" | "none"                                     *)
(*   key      the string itself, the enum's value, or the .key of the      *)
(*            attribute / column ("" when it has none)                     *)
(*   owner    "self": bound to the target model / its table;               *)
(*            "alias": an aliased copy of the table; "other": another      *)
(*            model; "na" when the item has no class_ / table              *)
(*   same     the item is structurally the model's column `key`            *)
(*            (what _same_column computes against the expected expression) *)
(*   modifier "asc" | "desc" for a unary, else "na"                        *)
(*   inner    for a unary, the cls of its element, else "na"               *)
(***************************************************************************)
Item(cls, key, owner, same, modifier, inner) ==
    [cls |-> cls, key |-> key, owner |-> owner, same |-> same,
     modifier |-> modifier, inner |-> inner]
Str(key) == Item("str", key, "na", FALSE, "na", "na")
EnumItem(key) == Item("enum", key, "na", FALSE, "na", "na")
\* Model.key
Attr(key) == Item("attr", key, "self", TRUE, "na", "na")
\* OtherModel.key
ForeignAttr(key) == Item("attr", key, "other", FALSE, "na", "na")
\* Model.key.expression, the canonical column: valid_expr_map[key]
Col(key) == Item("col", key, "self", TRUE, "na", "na")
\* aliased(Model).key.expression: same name, another table object
AliasCol(key) == Item("col", key, "alias", FALSE, "na", "na")
FuncItem == Item("func", "", "na", FALSE, "na", "na")
TextItem == Item("text", "", "na", FALSE, "na", "na")
NoneItem == Item("none", "", "na", FALSE, "na", "na")
\* aliased(Model).key: an attribute of the aliased class
AliasAttr(key) == Item("attr", key, "alias", FALSE, "na", "na")
\* Model.key.label(name): a ColumnElement named name, bound to no table
Label(name) == Item("col", name, "na", FALSE, "na", "na")
\* Model.key + 1: a ColumnElement without key or table
BinaryExpr == Item("col", "", "na", FALSE, "na", "na")
\* x.asc() / x.desc(): a UnaryExpression whose element is x
Asc(x) == Item("unary", x.key, x.owner, x.same, "asc", x.cls)
Desc(x) == Item("unary", x.key, x.owner, x.same, "desc", x.cls)
\* -x: a UnaryExpression whose element is x and whose modifier is neither
\* asc nor desc
Neg(x) == Item("unary", x.key, x.owner, x.same, "neg", x.cls)
\* UnaryExpression.element
Element(u) == Item(u.inner, u.key, u.owner, u.same, "na", "na")

(* ------------------------------ results --------------------------------- *)
\* a call either returns val (err = "none") or raises err
Ok(v) == [err |-> "none", val |-> v]
Raise(e) == [err |-> e, val |-> <<>>]

(* --------------------------- OrderByStrategy ---------------------------- *)
\* the value given as order_items: None, a sequence, or (by mistake) one str
OrderNone == [t |-> "None", items |-> <<>>]
OrderSeq(items) == [t |-> "seq", items |-> items]
OrderStr == [t |-> "str", items |-> <<>>]
\* Python truthiness of an order_items value (a str argument is non-empty)
Truthy(o) == \/ o.t = "str"
             \/ o.t = "seq" /\ Len(o.items) > 0

SameTable(a) == a.owner = "self"
SameColumn(a) == a.same

\* a normaliser that takes no bare ColumnElement
NormalizeColumnElement_unsupported(model, item) == Raise("ValueError")
\* branch 5 of the loop body: a ColumnElement that is the model's own column
\* collapses to the canonical expression
NormalizeColumnElement(model, item) ==
    IF item.key \notin ModelKeys(model) THEN Raise("ValueError")
    ELSE IF ~SameTable(item) THEN Raise("ValueError")
    ELSE IF ~SameColumn(item) THEN Raise("ValueError")
    ELSE Ok(Col(item.key))

\* one pass of the loop body of _normalize_and_validate
NormalizeItem(model, item) ==
    CASE item.cls \in {"str", "enum"} ->
           IF item.key \notin ModelKeys(model) THEN Raise("ValueError")
           ELSE Ok(Col(item.key))
      [] item.cls = "unary" ->
           IF item.inner \in {"func", "text"} THEN Raise("ValueError")
           ELSE IF item.inner = "attr" THEN
                  IF item.owner # "self" THEN Raise("ValueError")
                  ELSE IF item.key \notin ModelKeys(model) THEN Raise("ValueError")
                  ELSE Ok(item)
           ELSE IF item.inner = "col" THEN
                  IF item.key \notin ModelKeys(model) THEN Raise("ValueError")
                  ELSE IF ~SameTable(Element(item)) THEN Raise("ValueError")
                  ELSE IF ~SameColumn(Element(item)) THEN Raise("ValueError")
                  ELSE Ok(item)
           ELSE Raise("ValueError")
      [] item.cls = "attr" ->
           IF item.owner # "self" THEN Raise("ValueError")
           ELSE IF item.key \notin ModelKeys(model) THEN Raise("ValueError")
           ELSE Ok(Col(item.key))
      [] item.cls = "col" -> NormalizeColumnElement(model, item)
      [] OTHER -> Raise("ValueError")

\* a normaliser that skips the items it rejects
RECURSIVE NormalizeFrom_skips_rejected(_, _, _, _)
NormalizeFrom_skips_rejected(model, cols, i, out) ==
    IF i > Len(cols) THEN Ok(out)
    ELSE LET r == NormalizeItem(model, cols[i])
         IN IF r.err # "none" THEN NormalizeFrom_skips_rejected(model, cols, i + 1, out)
            ELSE NormalizeFrom_skips_rejected(model, cols, i + 1, Append(out, r.val))
\* _normalize_and_validate: the first rejected item raises, no partial list
RECURSIVE NormalizeFrom(_, _, _, _)
NormalizeFrom(model, cols, i, out) ==
    IF i > Len(cols) THEN Ok(out)
    ELSE LET r == NormalizeItem(model, cols[i])
         IN IF r.err # "none" THEN r
            ELSE NormalizeFrom(model, cols, i + 1, Append(out, r.val))
NormalizeAndValidate(model, cols) == NormalizeFrom(model, cols, 1, <<>>)

\* a base key that tells the directions of one column apart
BaseKey_with_direction(c) ==
    IF c.cls = "unary" THEN c.key \o "." \o c.modifier ELSE c.key
\* _base_key: the key of the column under an optional asc()/desc()
BaseKey(c) == c.key

\* the deduplication loop of OrderByStrategy.apply: first occurrence wins
RECURSIVE Dedup(_, _, _, _)
Dedup(cols, i, seen, uniq) ==
    IF i > Len(cols) THEN uniq
    ELSE IF BaseKey(cols[i]) \in seen THEN Dedup(cols, i + 1, seen, uniq)
    ELSE Dedup(cols, i + 1, seen \cup {BaseKey(cols[i])}, Append(uniq, cols[i]))

\* a default ordering of the first primary-key column only
PkFallback_first_column_only(model) ==
    IF Len(PrimaryKey(model)) = 0 THEN Raise("ValueError")
    ELSE Ok(<<Col(PrimaryKey(model)[1])>>)
\* the default ordering: list(mapper.primary_key), or the error without one
PkFallback(model) ==
    IF Len(PrimaryKey(model)) = 0 THEN Raise("ValueError")
    ELSE Ok([i \in 1..Len(PrimaryKey(model)) |-> Col(PrimaryKey(model)[i])])

\* OrderByStrategy.apply(model, order_items)
OrderByApply(model, order_items) ==
    IF order_items.t = "str" THEN Raise("TypeError")
    ELSE LET r == NormalizeAndValidate(model, order_items.items)
         IN IF r.err # "none" THEN r
            ELSE IF Len(r.val) = 0 THEN
                   LET pks == PkFallback(model)
                   IN IF pks.err # "none" THEN pks
                      ELSE Ok(Dedup(pks.val, 1, {}, <<>>))
            ELSE Ok(Dedup(r.val, 1, {}, <<>>))

\* every unary expression taken as descending
IsDesc_any_unary(c) == c.cls = "unary"
\* OrderByStrategy.is_desc
IsDesc(c) == c.cls = "unary" /\ c.modifier = "desc"

(* ------------------------------ statements ------------------------------ *)
(* A Select: the WHERE criteria (a conjunction, in the order attached), the *)
(* ORDER BY items, and the optional OFFSET and LIMIT.                       *)
\* select(q.model)
Select(model) == [whereclause |-> <<>>, order_by |-> <<>>,
                  offset |-> None, limit |-> None]
StmtWhere(stmt, crit) == [stmt EXCEPT !.whereclause = @ \o crit]
StmtOrderBy(stmt, cols) == [stmt EXCEPT !.order_by = @ \o cols]
StmtOffset(stmt, n) == [stmt EXCEPT !.offset = Some(n)]
StmtLimit(stmt, n) == [stmt EXCEPT !.limit = Some(n)]

(* ------------------------------ predicates ------------------------------ *)
\* col > val, col < val, col == val
Cmp(col, o, val) == [t |-> "cmp", col |-> col, o |-> o, val |-> val]
\* tuple_(*cols) > tuple_(*vals)
TupleGt(cols, vals) == [t |-> "tuple_gt", cols |-> cols, vals |-> vals]
\* or_(and_(..), and_(..), ..): arms is a sequence of sequences of Cmp
OrLadder(arms) == [t |-> "or", arms |-> arms]
\* a criterion produced by a filter object, opaque to the builder
Crit(name) == [t |-> "crit", name |-> name]

(* ---------------------------- KeysetStrategy ---------------------------- *)
\* a cursor dict: its items in iteration order
CursorKeys(c) == [i \in 1..Len(c) |-> c[i].key]
CursorGet(c, key) == c[CHOOSE i \in 1..Len(c) : c[i].key = key].val
Range(s) == {s[i] : i \in 1..Len(s)}

\* KeysetStrategy._col_key
ColKey(c) == IF c.cls = "unary" THEN Element(c).key ELSE c.key
\* KeysetStrategy._strip_unary
StripUnary(cols) ==
    [i \in 1..Len(cols) |-> IF cols[i].cls = "unary" THEN Element(cols[i])
                            ELSE cols[i]]

\* isinstance(v, expected_py)
IsInstance(v, py) == v.k = py
\* a conversion that hands the value back as it came
Coerce_identity(v, py) == Ok(v)
\* expected_py(v) for a v that is no instance of expected_py: int("7") is 7,
\* int("abc") raises, str(7) is "7"
Coerce(v, py) ==
    IF py = "int" THEN
        IF v.k = "str" /\ v.n < NonNumeric THEN Ok(IntV(v.n)) ELSE Raise("TypeError")
    ELSE Ok(StrV(v.n))

\* one pass of the value loop of KeysetStrategy.apply
CursorValue(cursor, key, col) ==
    LET v == CursorGet(cursor, key)
        py == PythonType(col.key)
    IN IF v.k = "null" THEN Raise("ValueError")
       ELSE IF ~IsInstance(v, py) THEN Coerce(v, py)
       ELSE Ok(v)

\* the value loop: the first bad value raises
RECURSIVE CursorValues(_, _, _, _, _)
CursorValues(cursor, col_keys, stripped, i, values) ==
    IF i > Len(col_keys) THEN Ok(values)
    ELSE LET r == CursorValue(cursor, col_keys[i], stripped[i])
         IN IF r.err # "none" THEN r
            ELSE CursorValues(cursor, col_keys, stripped, i + 1, Append(values, r.val))

\* every column compared with >, whatever its direction
LadderOp_always_gt(desc) == ">"
\* the comparison of column i in arm i of the ladder, by its own direction
LadderOp(desc) == IF desc THEN "<" ELSE ">"
\* arm i of the ladder without the == pins on the earlier columns
LadderArm_without_prefix(stripped, values, dirs, i) ==
    <<Cmp(stripped[i], LadderOp(dirs[i]), values[i])>>
\* arm i of the OR-ladder: earlier columns pinned with ==, then column i
LadderArm(stripped, values, dirs, i) ==
    [j \in 1..i |-> IF j < i THEN Cmp(stripped[j], "==", values[j])
                    ELSE Cmp(stripped[i], LadderOp(dirs[i]), values[i])]
\* or_(*or_conds)
SeekLadder(stripped, values, dirs) ==
    OrLadder([i \in 1..Len(stripped) |-> LadderArm(stripped, values, dirs, i)])

\* the tuple comparison used for every ordering, descending ones included
SeekPredicate_always_tuple(stripped, values, dirs) ==
    IF Len(stripped) = 1 THEN Cmp(stripped[1], ">", values[1])
    ELSE TupleGt(stripped, values)
\* only the first ordering column compared
SeekPredicate_first_column_only(stripped, values, dirs) ==
    Cmp(stripped[1], IF dirs[1] THEN "<" ELSE ">", values[1])
\* the ladder built for every ordering, all-ascending ones included
SeekPredicate_always_ladder(stripped, values, dirs) ==
    SeekLadder(stripped, values, dirs)
\* the predicate built once the values are validated
SeekPredicate(stripped, values, dirs) ==
    IF \A i \in 1..Len(dirs) : ~dirs[i] THEN
        IF Len(stripped) = 1 THEN Cmp(stripped[1], ">", values[1])
        ELSE TupleGt(stripped, values)
    ELSE SeekLadder(stripped, values, dirs)

\* set(cursor_keys) != set(col_keys)
CursorKeySetMismatch(cursor_keys, col_keys) == Range(cursor_keys) # Range(col_keys)
\* a key-order check that never fires
CursorKeyOrderMismatch_unchecked(cursor_keys, col_keys) == FALSE
\* cursor_keys != col_keys
CursorKeyOrderMismatch(cursor_keys, col_keys) == cursor_keys # col_keys

\* a size check that never fires
KeysetSizeInvalid_unchecked(size) == FALSE
\* the size check of KeysetStrategy.apply
KeysetSizeInvalid(size) == size < 1

\* the seek predicate attached without the row-limit
SeekStatement_without_limit(stmt, cond, size) == StmtWhere(stmt, <<cond>>)
\* stmt.where(cond).limit(size)
SeekStatement(stmt, cond, size) == StmtLimit(StmtWhere(stmt, <<cond>>), size)

\* KeysetStrategy.apply(stmt, order_cols=, cursor=, size=); cursor is an
\* Optional dict
KeysetApply(stmt, order_cols, cursor, size) ==
    IF Len(order_cols) = 0 THEN Raise("ValueError")
    ELSE IF KeysetSizeInvalid(size) THEN Raise("ValueError")
    ELSE IF IsNone(cursor) \/ Len(Get(cursor)) = 0 THEN Ok(StmtLimit(stmt, size))
    ELSE LET c == Get(cursor)
             col_keys == [i \in 1..Len(order_cols) |-> ColKey(order_cols[i])]
             cursor_keys == CursorKeys(c)
             stripped == StripUnary(order_cols)
         IN IF CursorKeySetMismatch(cursor_keys, col_keys) THEN Raise("ValueError")
            ELSE IF CursorKeyOrderMismatch(cursor_keys, col_keys) THEN Raise("ValueError")
            ELSE LET r == CursorValues(c, col_keys, stripped, 1, <<>>)
                     dirs == [i \in 1..Len(order_cols) |-> IsDesc(order_cols[i])]
                 IN IF r.err # "none" THEN r
                    ELSE Ok(SeekStatement(stmt, SeekPredicate(stripped, r.val, dirs), size))

(* ---------------------------- OffsetStrategy ---------------------------- *)
\* an offset strategy that takes any page number
OffsetApply_page_unchecked(stmt, pg, size) ==
    IF size < 1 THEN Raise("ValueError")
    ELSE Ok(StmtLimit(StmtOffset(stmt, (pg - 1) * size), size))
\* an offset strategy that skips page * size rows
OffsetApply_skips_page_times_size(stmt, pg, size) ==
    IF pg < 1 THEN Raise("ValueError")
    ELSE IF size < 1 THEN Raise("ValueError")
    ELSE Ok(StmtLimit(StmtOffset(stmt, pg * size), size))
\* OffsetStrategy.apply(stmt, page=, size=)
OffsetApply(stmt, pg, size) ==
    IF pg < 1 THEN Raise("ValueError")
    ELSE IF size < 1 THEN Raise("ValueError")
    ELSE Ok(StmtLimit(StmtOffset(stmt, (pg - 1) * size), size))

(* ------------------------------- filters -------------------------------- *)
(* A BaseRepoFilter is opaque here: it is asked for its criteria at compile *)
(* time.  "fA" and "fB" yield one criterion each, "fEmpty" (every field     *)
(* None) yields none, and "fStrict" is a strict filter with an unmapped     *)
(* field, whose where_criteria raises ValueError.                           *)
Filters == {"fA", "fB", "fEmpty", "fStrict"}
\* BaseRepoFilter.where_criteria(model)
WhereCriteria(flt, model) ==
    IF flt = "fStrict" THEN Raise("ValueError")
    ELSE IF flt = "fEmpty" THEN Ok(<<>>)
    ELSE Ok(<<Crit(flt)>>)

(* ------------------------------ the builder ----------------------------- *)
VARIABLES
    model,          \* ListQuery.model
    filter,         \* ListQuery._filter       Optional filter
    order_items,    \* ListQuery._order_items  OrderNone / OrderSeq / OrderStr
    mode,           \* ListQuery._mode         "NONE" | "OFFSET" | "CURSOR"
    cursor,         \* ListQuery._cursor       Optional dict
    cursor_size,    \* ListQuery._cursor_size  Optional int
    page,           \* ListQuery._page         Optional int
    offset_size,    \* ListQuery._offset_size  Optional int
    sealed,         \* ListQuery._sealed
    op,             \* the last call made on the builder ("new" after __init__)
    arg,            \* its arguments
    err,            \* what it raised ("none" when it returned)
    stmt,           \* the Select it returned, for _build_list_query, else None
    fcall,          \* a direct call of a strategy: its function and arguments
    fres,           \* and its outcome
    snapshot,       \* the rows of the table, static while pages are fetched
    pages,          \* the pages fetched so far, each a sequence of rows
    next_cursor     \* the cursor for the next page (Optional dict)

fields == <<model, filter, order_items, mode, cursor, cursor_size, page,
            offset_size, sealed>>
frame == <<fcall, fres>>
table == <<snapshot, pages, next_cursor>>
vars == <<model, filter, order_items, mode, cursor, cursor_size, page,
          offset_size, sealed, op, arg, err, stmt, fcall, fres,
          snapshot, pages, next_cursor>>

\* the arguments of a call, unused ones at these defaults
NoArg == [flt |-> None, items |-> OrderNone, cursor |-> None, size |-> 0, page |-> 0]
NoCall == [fn |-> "none"]
NoRes == [done |-> FALSE, err |-> "none", val |-> <<>>]

\* ListQuery.__init__(model, flt)
InitBuilder(m, flt) ==
    /\ model = m
    /\ filter = flt
    /\ order_items = OrderNone
    /\ mode = "NONE"
    /\ cursor = None
    /\ cursor_size = None
    /\ page = None
    /\ offset_size = None
    /\ sealed = FALSE
    /\ op = "new" /\ arg = [NoArg EXCEPT !.flt = flt] /\ err = "none" /\ stmt = None

\* a seal check that never fires
EnsureMutable_unchecked == "none"
\* ListQuery._ensure_mutable
EnsureMutable == IF sealed THEN "RuntimeError" ELSE "none"

\* a where() that overwrites the filter
FilterAlreadySet_unchecked == FALSE
\* the single-use guard of where
FilterAlreadySet == ~IsNone(filter)

\* order_by allowed whatever the mode
OrderByInCursorMode_unchecked == FALSE
\* order_by guarded against the other paging mode
OrderByInCursorMode_offset_instead == mode = "OFFSET"
\* the guard of order_by: the ordering is fixed once a cursor is attached
OrderByInCursorMode == mode = "CURSOR"

\* with_cursor allowed whatever the mode
WithCursorInOffsetMode_unchecked == FALSE
\* the guard of with_cursor against offset paging
WithCursorInOffsetMode == mode = "OFFSET"

\* with_cursor refusing only an ordering that was never set
CursorWithoutOrdering_none_only == order_items = OrderNone
\* the guard of with_cursor: `not self._order_items`
CursorWithoutOrdering == ~Truthy(order_items)

\* limit accepting size 0
LimitSizeInvalid_negative_only(size) == size < 0
\* the size check of limit
LimitSizeInvalid(size) == size <= 0

\* the guard of limit against offset paging
LimitInOffsetMode == mode = "OFFSET"

\* paging allowed whatever the mode
PagingInCursorMode_unchecked == FALSE
\* the guard of paging against keyset paging
PagingInCursorMode == mode = "CURSOR" \/ ~IsNone(cursor)

\* the size check of paging
PagingSizeInvalid(size) == size <= 0

\* a paging() that may be called again
PagingAlreadySet_unchecked == FALSE
\* the single-use guard of paging
PagingAlreadySet == mode = "OFFSET" /\ (~IsNone(page) \/ ~IsNone(offset_size))

\* no table is read
NoTable == snapshot = {} /\ pages = <<>> /\ next_cursor = None

\* a raising call that also drops the paging mode
Raises_resetting_mode(e) ==
    /\ err' = e /\ mode' = "NONE"
    /\ UNCHANGED <<model, filter, order_items, cursor, cursor_size, page,
                   offset_size, sealed>>
\* a call that raises e and touches nothing
Raises(e) == err' = e /\ UNCHANGED fields

\* a where() that looks at the stored filter before it looks at its argument
where_none_checked_last(flt) ==
    /\ op' = "where" /\ arg' = [NoArg EXCEPT !.flt = flt] /\ stmt' = None
    /\ UNCHANGED <<frame, table>>
    /\ IF EnsureMutable # "none" THEN Raises(EnsureMutable)
       ELSE IF FilterAlreadySet THEN Raises("ValueError")
       ELSE IF IsNone(flt) THEN Raises("none")
       ELSE /\ filter' = flt
            /\ err' = "none"
            /\ UNCHANGED <<model, order_items, mode, cursor, cursor_size, page,
                           offset_size, sealed>>
\* ListQuery.where(flt)
where(flt) ==
    /\ op' = "where" /\ arg' = [NoArg EXCEPT !.flt = flt] /\ stmt' = None
    /\ UNCHANGED <<frame, table>>
    /\ IF EnsureMutable # "none" THEN Raises(EnsureMutable)
       ELSE IF IsNone(flt) THEN Raises("none")
       ELSE IF FilterAlreadySet THEN Raises("ValueError")
       ELSE /\ filter' = flt
            /\ err' = "none"
            /\ UNCHANGED <<model, order_items, mode, cursor, cursor_size, page,
                           offset_size, sealed>>

\* ListQuery.order_by(items)
order_by(items) ==
    /\ op' = "order_by" /\ arg' = [NoArg EXCEPT !.items = items] /\ stmt' = None
    /\ UNCHANGED <<frame, table>>
    /\ IF EnsureMutable # "none" THEN Raises(EnsureMutable)
       ELSE IF OrderByInCursorMode THEN Raises("ValueError")
       ELSE /\ order_items' = items
            /\ err' = "none"
            /\ UNCHANGED <<model, filter, mode, cursor, cursor_size, page,
                           offset_size, sealed>>

\* a with_cursor() that stores the cursor and leaves the mode alone
with_cursor_keeps_mode(c) ==
    /\ op' = "with_cursor" /\ arg' = [NoArg EXCEPT !.cursor = c] /\ stmt' = None
    /\ UNCHANGED <<frame, table>>
    /\ IF EnsureMutable # "none" THEN Raises(EnsureMutable)
       ELSE IF WithCursorInOffsetMode THEN Raises("ValueError")
       ELSE IF CursorWithoutOrdering THEN Raises("ValueError")
       ELSE /\ cursor' = IF IsNone(c) THEN Some(<<>>) ELSE c
            /\ err' = "none"
            /\ UNCHANGED <<model, filter, order_items, mode, cursor_size, page,
                           offset_size, sealed>>
\* ListQuery.with_cursor(cursor): c is the Optional dict given
with_cursor(c) ==
    /\ op' = "with_cursor" /\ arg' = [NoArg EXCEPT !.cursor = c] /\ stmt' = None
    /\ UNCHANGED <<frame, table>>
    /\ IF EnsureMutable # "none" THEN Raises(EnsureMutable)
       ELSE IF WithCursorInOffsetMode THEN Raises("ValueError")
       ELSE IF CursorWithoutOrdering THEN Raises("ValueError")
       ELSE /\ cursor' = IF IsNone(c) THEN Some(<<>>) ELSE c
            /\ mode' = "CURSOR"
            /\ err' = "none"
            /\ UNCHANGED <<model, filter, order_items, cursor_size, page,
                           offset_size, sealed>>

\* ListQuery.limit(size)
limit(size) ==
    /\ op' = "limit" /\ arg' = [NoArg EXCEPT !.size = size] /\ stmt' = None
    /\ UNCHANGED <<frame, table>>
    /\ IF EnsureMutable # "none" THEN Raises(EnsureMutable)
       ELSE IF LimitSizeInvalid(size) THEN Raises("ValueError")
       ELSE IF LimitInOffsetMode THEN Raises("ValueError")
       ELSE /\ cursor_size' = Some(size)
            /\ err' = "none"
            /\ UNCHANGED <<model, filter, order_items, mode, cursor, page,
                           offset_size, sealed>>

\* ListQuery.paging(page=pg, size=size)
paging(pg, size) ==
    /\ op' = "paging" /\ arg' = [NoArg EXCEPT !.page = pg, !.size = size]
    /\ stmt' = None
    /\ UNCHANGED <<frame, table>>
    /\ IF EnsureMutable # "none" THEN Raises(EnsureMutable)
       ELSE IF PagingInCursorMode THEN Raises("ValueError")
       ELSE IF PagingAlreadySet THEN Raises("ValueError")
       ELSE IF PagingSizeInvalid(size) THEN Raises("ValueError")
       ELSE /\ page' = Some(pg)
            /\ offset_size' = Some(size)
            /\ mode' = "OFFSET"
            /\ err' = "none"
            /\ UNCHANGED <<model, filter, order_items, cursor, cursor_size, sealed>>

(* ------------------------------ the compiler ---------------------------- *)
\* the builder as the compiler reads it
Q == [model |-> model, filter |-> filter, order_items |-> order_items,
      mode |-> mode, cursor |-> cursor, cursor_size |-> cursor_size,
      page |-> page, offset_size |-> offset_size]

\* _apply_where(stmt, q)
ApplyWhere(s, q) ==
    IF IsNone(q.filter) THEN Ok(s)
    ELSE LET crit == WhereCriteria(Get(q.filter), q.model)
         IN IF crit.err # "none" THEN crit
            ELSE IF Len(crit.val) > 0 THEN Ok(StmtWhere(s, crit.val))
            ELSE Ok(s)

\* _compute_order_cols(q)
ComputeOrderCols(q) == OrderByApply(q.model, q.order_items)

\* _apply_order(stmt, order_cols)
ApplyOrder(s, order_cols) == StmtOrderBy(s, order_cols)

\* a paging step that dispatches on the fields present instead of the mode
ApplyPaging_by_fields(s, q, order_cols) ==
    IF ~IsNone(q.cursor) THEN
        IF IsNone(q.cursor_size) THEN Raise("ValueError")
        ELSE KeysetApply(s, order_cols, q.cursor, Get(q.cursor_size))
    ELSE IF ~IsNone(q.page) /\ ~IsNone(q.offset_size) THEN
        OffsetApply(s, Get(q.page), Get(q.offset_size))
    ELSE Ok(s)
\* a paging step that applies a stored limit although the mode is NONE
ApplyPaging_limit_alone(s, q, order_cols) ==
    IF q.mode = "CURSOR" THEN
        IF IsNone(q.cursor) THEN Raise("ValueError")
        ELSE IF IsNone(q.cursor_size) THEN Raise("ValueError")
        ELSE KeysetApply(s, order_cols, q.cursor, Get(q.cursor_size))
    ELSE IF q.mode = "OFFSET" THEN
        IF IsNone(q.page) \/ IsNone(q.offset_size) THEN Raise("ValueError")
        ELSE OffsetApply(s, Get(q.page), Get(q.offset_size))
    ELSE IF ~IsNone(q.cursor_size) THEN Ok(StmtLimit(s, Get(q.cursor_size)))
    ELSE Ok(s)
\* _apply_paging(stmt, q, order_cols)
ApplyPaging(s, q, order_cols) ==
    IF q.mode = "CURSOR" THEN
        IF IsNone(q.cursor) THEN Raise("ValueError")
        ELSE IF IsNone(q.cursor_size) THEN Raise("ValueError")
        ELSE KeysetApply(s, order_cols, q.cursor, Get(q.cursor_size))
    ELSE IF q.mode = "OFFSET" THEN
        IF IsNone(q.page) \/ IsNone(q.offset_size) THEN Raise("ValueError")
        ELSE OffsetApply(s, Get(q.page), Get(q.offset_size))
    ELSE Ok(s)

\* a compile that sorts by the canonical ordering and seeks by the primary key
BuildListQuery_seeks_by_primary_key(q) ==
    LET s1 == ApplyWhere(Select(q.model), q)
    IN IF s1.err # "none" THEN s1
       ELSE LET order_cols == ComputeOrderCols(q)
            IN IF order_cols.err # "none" THEN order_cols
               ELSE ApplyPaging(ApplyOrder(s1.val, order_cols.val), q,
                                PkFallback(q.model).val)
\* _build_list_query(q), up to the statement it returns or the error it raises
BuildListQuery(q) ==
    LET s1 == ApplyWhere(Select(q.model), q)
    IN IF s1.err # "none" THEN s1
       ELSE LET order_cols == ComputeOrderCols(q)
            IN IF order_cols.err # "none" THEN order_cols
               ELSE ApplyPaging(ApplyOrder(s1.val, order_cols.val), q, order_cols.val)

\* a compile that refuses a sealed builder
build_list_query_refuses_sealed ==
    /\ op' = "build" /\ arg' = NoArg
    /\ UNCHANGED <<frame, table>>
    /\ LET r == IF sealed THEN Raise("RuntimeError") ELSE BuildListQuery(Q)
       IN IF r.err # "none" THEN /\ Raises(r.err)
                                 /\ stmt' = None
          ELSE /\ sealed' = TRUE
               /\ err' = "none"
               /\ stmt' = Some(r.val)
               /\ UNCHANGED <<model, filter, order_items, mode, cursor,
                              cursor_size, page, offset_size>>
\* a compile that seals the builder before it builds the statement
build_list_query_seals_first ==
    /\ op' = "build" /\ arg' = NoArg
    /\ UNCHANGED <<frame, table>>
    /\ sealed' = TRUE
    /\ UNCHANGED <<model, filter, order_items, mode, cursor,
                   cursor_size, page, offset_size>>
    /\ LET r == BuildListQuery(Q)
       IN IF r.err # "none" THEN err' = r.err /\ stmt' = None
          ELSE err' = "none" /\ stmt' = Some(r.val)
\* a compile that fails when the call before it on the builder had raised
build_list_query_fails_after_error ==
    /\ op' = "build" /\ arg' = NoArg
    /\ UNCHANGED <<frame, table>>
    /\ LET r == IF err # "none" THEN Raise("RuntimeError") ELSE BuildListQuery(Q)
       IN IF r.err # "none" THEN /\ Raises(r.err)
                                 /\ stmt' = None
          ELSE /\ sealed' = TRUE
               /\ err' = "none"
               /\ stmt' = Some(r.val)
               /\ UNCHANGED <<model, filter, order_items, mode, cursor,
                              cursor_size, page, offset_size>>
\* _build_list_query(q): the builder is sealed when, and only when, the
\* statement is returned
build_list_query ==
    /\ op' = "build" /\ arg' = NoArg
    /\ UNCHANGED <<frame, table>>
    /\ LET r == BuildListQuery(Q)
       IN IF r.err # "none" THEN /\ Raises(r.err)
                                 /\ stmt' = None
          ELSE /\ sealed' = TRUE
               /\ err' = "none"
               /\ stmt' = Some(r.val)
               /\ UNCHANGED <<model, filter, order_items, mode, cursor,
                              cursor_size, page, offset_size>>

(* ------------------------- inputs of the builder ------------------------ *)
KV(key, val) == [key |-> key, val |-> val]
\* the order_by arguments tried
OrderInputs ==
    { OrderSeq(<<>>),
      OrderSeq(<<Asc(Attr("id"))>>),
      OrderSeq(<<Asc(Attr("category")), Desc(Attr("value2")), Asc(Attr("id"))>>),
      OrderSeq(<<Str("value2"), Attr("id")>>),
      OrderSeq(<<Str("nope")>>),
      OrderStr }
\* the with_cursor arguments tried
CursorInputs ==
    { None,
      Some(<<>>),
      Some(<<KV("id", IntV(MaxVal))>>),
      Some(<<KV("id", StrV(MaxVal))>>),
      Some(<<KV("id", StrV(NonNumeric))>>),
      Some(<<KV("id", NullV)>>),
      Some(<<KV("category", StrV(0)), KV("value2", IntV(MaxVal)), KV("id", IntV(0))>>),
      Some(<<KV("value2", IntV(0)), KV("id", IntV(MaxVal))>>),
      Some(<<KV("id", IntV(MaxVal)), KV("value2", IntV(0))>>) }
FilterInputs == {None} \cup {Some(f) : f \in Filters}
SizeInputs == (-1)..MaxSize
PageInputs == 0..MaxPage

Init ==
    /\ \E m \in Models, flt \in FilterInputs : InitBuilder(m, flt)
    /\ fcall = NoCall /\ fres = NoRes
    /\ NoTable

Next ==
    \/ \E flt \in FilterInputs : where(flt)
    \/ \E items \in OrderInputs : order_by(items)
    \/ \E c \in CursorInputs : with_cursor(c)
    \/ \E size \in SizeInputs : limit(size)
    \/ \E pg \in PageInputs, size \in SizeInputs : paging(pg, size)
    \/ build_list_query

Spec == Init /\ [][Next]_vars

(* ------------------ KeysetStrategy.apply called directly ---------------- *)
\* sequences of distinct column keys, and one with a repeated key
KeySeqs ==
    { ks \in UNION { [1..n -> ModelKeys("PerfResult")] : n \in 0..3 } :
        \A i, j \in 1..Len(ks) : i # j => ks[i] # ks[j] }
    \cup { <<"id", "id">> }
\* the forms of a canonical entry on column key: the bare column (ascending),
\* Model.key.asc() and Model.key.desc()
EntryForms(key) == { Col(key), Asc(Attr(key)), Desc(Attr(key)) }
Orderings ==
    UNION { { oc \in [1..Len(ks) -> UNION { EntryForms(k) : k \in ModelKeys("PerfResult") }] :
                \A i \in 1..Len(ks) : oc[i] \in EntryForms(ks[i]) } : ks \in KeySeqs }
\* the values a cursor may carry for a column: values of the column's type,
\* a value of the other type, a string that is no numeral, and None
CursorVals(key) ==
    IF PythonType(key) = "int"
    THEN { IntV(n) : n \in 0..MaxVal } \cup { StrV(1), StrV(NonNumeric), NullV }
    ELSE { StrV(n) : n \in 0..MaxVal } \cup { IntV(1), NullV }
\* the cursors with exactly the keys ks, in that order
ExactCursors(ks) ==
    { [i \in 1..Len(ks) |-> KV(ks[i], v[i])] :
        v \in { w \in [1..Len(ks) -> UNION { CursorVals(k) : k \in ModelKeys("PerfResult") }] :
                  \A i \in 1..Len(ks) : w[i] \in CursorVals(ks[i]) } }
\* a well-typed value for a key
SomeVal(key) == IF PythonType(key) = "int" THEN IntV(1) ELSE StrV(1)
PlainCursor(ks) == [i \in 1..Len(ks) |-> KV(ks[i], SomeVal(ks[i]))]
Reverse(sq) == [i \in 1..Len(sq) |-> sq[Len(sq) + 1 - i]]
\* cursors whose keys are not the sequence ks: reordered, one missing, one
\* extra, one replaced by a key the ordering does not have
WrongCursors(ks) ==
    LET c == PlainCursor(ks)
    IN { Reverse(c), SubSeq(c, 1, Len(c) - 1), SubSeq(c, 2, Len(c)),
         Append(c, KV("extra", IntV(1))),
         SubSeq(c, 1, Len(c) - 1) \o <<KV("wrong_key", IntV(1))>> }
       \ { c }
\* the keys of a dict are distinct
IsDict(c) == \A i, j \in 1..Len(c) : c[i].key = c[j].key => i = j
\* the Optional cursor arguments tried with the ordering oc
CursorsFor(oc) ==
    LET ks == [i \in 1..Len(oc) |-> oc[i].key]
    IN { None, Some(<<>>) }
       \cup { Some(c) : c \in { d \in ExactCursors(ks) \cup WrongCursors(ks) : IsDict(d) } }

\* the call KeysetStrategy.apply(select(model), order_cols=, cursor=, size=)
KeysetCall(oc, c, size) ==
    [fn |-> "KeysetStrategy.apply", order_cols |-> oc, cursor |-> c, size |-> size]

InitKeyset ==
    /\ InitBuilder("PerfResult", None)
    /\ \E oc \in Orderings, size \in 0..MaxSize : \E c \in CursorsFor(oc) :
          fcall = KeysetCall(oc, c, size)
    /\ fres = NoRes
    /\ NoTable

\* the call returns or raises
keyset_apply ==
    /\ fcall.fn = "KeysetStrategy.apply" /\ ~fres.done
    /\ LET r == KeysetApply(Select(model), fcall.order_cols, fcall.cursor, fcall.size)
       IN fres' = [done |-> TRUE, err |-> r.err, val |-> r.val]
    /\ UNCHANGED <<fields, op, arg, err, stmt, fcall, table>>

SpecKeyset == InitKeyset /\ [][keyset_apply]_vars

(* ----------------------- _apply_paging called directly ------------------ *)
\* the canonical orderings passed as order_cols
PagingOrderCols ==
    { OrderByApply("PerfResult", OrderSeq(<<Asc(Attr("id"))>>)).val,
      OrderByApply("PerfResult", OrderSeq(<<Desc(Attr("value2")), Asc(Attr("id"))>>)).val }
\* the builders passed as q: a ListQuery whose private paging fields were
\* assigned directly, in every combination of set and unset
PagingQueries ==
    { [model |-> "PerfResult", filter |-> None, order_items |-> OrderNone,
       mode |-> m, cursor |-> c, cursor_size |-> cs, page |-> pg, offset_size |-> os] :
        m \in {"NONE", "OFFSET", "CURSOR"},
        c \in { None, Some(<<>>), Some(<<KV("id", IntV(1))>>),
                Some(<<KV("id", StrV(NonNumeric))>>) },
        cs \in {None} \cup { Some(n) : n \in 1..MaxSize },
        pg \in {None} \cup { Some(n) : n \in 0..MaxPage },
        os \in {None} \cup { Some(n) : n \in 1..MaxSize } }

\* the call _apply_paging(stmt, q, order_cols) on an ordered statement
PagingCall(q, oc) ==
    [fn |-> "_apply_paging", stmt |-> ApplyOrder(Select(q.model), oc),
     q |-> q, order_cols |-> oc]

InitPaging ==
    /\ InitBuilder("PerfResult", None)
    /\ \E q \in PagingQueries, oc \in PagingOrderCols : fcall = PagingCall(q, oc)
    /\ fres = NoRes
    /\ NoTable

\* the call returns or raises
apply_paging ==
    /\ fcall.fn = "_apply_paging" /\ ~fres.done
    /\ LET r == ApplyPaging(fcall.stmt, fcall.q, fcall.order_cols)
       IN fres' = [done |-> TRUE, err |-> r.err, val |-> r.val]
    /\ UNCHANGED <<fields, op, arg, err, stmt, fcall, table>>

SpecPaging == InitPaging /\ [][apply_paging]_vars

(* -------------------- OffsetStrategy.apply called directly -------------- *)
\* the statements passed: a bare select and one with WHERE and ORDER BY
OffsetStmts ==
    { Select("PerfResult"),
      ApplyOrder(StmtWhere(Select("PerfResult"), <<Crit("fA")>>),
                 OrderByApply("PerfResult", OrderNone).val) }

\* the call OffsetStrategy.apply(stmt, page=, size=)
OffsetCall(s, pg, size) ==
    [fn |-> "OffsetStrategy.apply", stmt |-> s, page |-> pg, size |-> size]

InitOffset ==
    /\ InitBuilder("PerfResult", None)
    /\ \E s \in OffsetStmts, pg \in (-1)..MaxApplyPage, size \in (-1)..MaxApplySize :
          fcall = OffsetCall(s, pg, size)
    /\ fres = NoRes
    /\ NoTable

\* the call returns or raises
offset_apply ==
    /\ fcall.fn = "OffsetStrategy.apply" /\ ~fres.done
    /\ LET r == OffsetApply(fcall.stmt, fcall.page, fcall.size)
       IN fres' = [done |-> TRUE, err |-> r.err, val |-> r.val]
    /\ UNCHANGED <<fields, op, arg, err, stmt, fcall, table>>

SpecOffset == InitOffset /\ [][offset_apply]_vars

(* -------------------- OrderByStrategy.apply called directly ------------- *)
\* the directives tried on relation m: every accepted input form, in both
\* directions, on two columns (k1 of the primary key, k2 another), and every
\* rejected one
Directives(m) ==
    LET k1 == PrimaryKey(m)[1]
        k2 == IF m = "PerfResult" THEN "category" ELSE "item_id"
    IN { Str(k1), Col(k1), Desc(Attr(k1)), Neg(Col(k1)),
         EnumItem(k2), Attr(k2), Asc(Col(k2)), Desc(Col(k2)),
         Str("nope"), Attr("posts"), ForeignAttr(k1), AliasAttr(k1),
         Desc(AliasCol(k2)), Label("x"), BinaryExpr, FuncItem,
         Asc(TextItem), NoneItem }
\* the order_items arguments tried on relation m
DirectiveLists(m) ==
    IF ModelKeys(m) = {}
    THEN { OrderNone, OrderSeq(<<>>), OrderStr, OrderSeq(<<Str("id")>>) }
    ELSE { OrderNone, OrderStr }
         \cup { OrderSeq(ds) : ds \in UNION { [1..n -> Directives(m)] : n \in 0..MaxItems } }

\* the call OrderByStrategy.apply(model, order_items); pass 2 is the call on
\* the list the first call returned, kept in first
OrderByCall(m, items) ==
    [fn |-> "OrderByStrategy.apply", model |-> m, order_items |-> items,
     pass |-> 1, first |-> <<>>]

InitOrderBy ==
    /\ InitBuilder("PerfResult", None)
    /\ \E m \in {"PerfResult", "CompositePK", "NoPK"} : \E items \in DirectiveLists(m) :
          fcall = OrderByCall(m, items)
    /\ fres = NoRes
    /\ NoTable

\* the call returns or raises
order_by_apply ==
    /\ fcall.fn = "OrderByStrategy.apply" /\ ~fres.done
    /\ LET r == OrderByApply(fcall.model, fcall.order_items)
       IN fres' = [done |-> TRUE, err |-> r.err, val |-> r.val]
    /\ UNCHANGED <<fields, op, arg, err, stmt, fcall, table>>

\* the list returned is handed to OrderByStrategy.apply again
order_by_reapply ==
    /\ fcall.fn = "OrderByStrategy.apply" /\ fres.done /\ fres.err = "none"
    /\ fcall.pass = 1
    /\ fcall' = [fcall EXCEPT !.order_items = OrderSeq(fres.val), !.pass = 2,
                               !.first = fres.val]
    /\ LET r == OrderByApply(fcall.model, OrderSeq(fres.val))
       IN fres' = [done |-> TRUE, err |-> r.err, val |-> r.val]
    /\ UNCHANGED <<fields, op, arg, err, stmt, table>>

SpecOrderBy == InitOrderBy /\ [][order_by_apply \/ order_by_reapply]_vars

(* --------------------- what a statement means on rows ------------------- *)
(* A row maps every column of the model to a non-null value of the column's *)
(* type (the columns of PerfResult are all NOT NULL).  Values of one type   *)
(* compare by n.                                                            *)
RowVals(key) == { [k |-> PythonType(key), n |-> n] : n \in 0..MaxVal }
Rows == { r \in [ModelKeys("PerfResult") -> UNION { RowVals(k) : k \in ModelKeys("PerfResult") }] :
            \A k \in ModelKeys("PerfResult") : r[k] \in RowVals(k) }

\* a comparison of two values as the data store evaluates it
Holds(o, a, b) ==
    /\ a.k = b.k
    /\ CASE o = ">" -> a.n > b.n
         [] o = "<" -> a.n < b.n
         [] OTHER -> a.n = b.n

\* the row-value comparison (c1, .., cn) > (v1, .., vn) from position i on
RECURSIVE TupleGtFrom(_, _, _, _)
TupleGtFrom(row, cols, vals, i) ==
    IF i > Len(cols) THEN FALSE
    ELSE \/ Holds(">", row[cols[i].key], vals[i])
         \/ /\ Holds("==", row[cols[i].key], vals[i])
            /\ TupleGtFrom(row, cols, vals, i + 1)

\* whether predicate p is true of the row
EvalPred(p, row) ==
    CASE p.t = "cmp" -> Holds(p.o, row[p.col.key], p.val)
      [] p.t = "tuple_gt" -> TupleGtFrom(row, p.cols, p.vals, 1)
      [] p.t = "or" ->
           \E i \in 1..Len(p.arms) :
               \A j \in 1..Len(p.arms[i]) :
                   Holds(p.arms[i][j].o, row[p.arms[i][j].col.key], p.arms[i][j].val)
      [] OTHER -> TRUE

\* ORDER BY sorts an item descending exactly when it is a desc() expression
SortsDescending(c) == c.cls = "unary" /\ c.modifier = "desc"

\* the sort comparator of ORDER BY order_cols: the row sorts strictly after
\* the tuple vals, deciding at the first column from i on where they differ
RECURSIVE SortsAfterFrom(_, _, _, _)
SortsAfterFrom(row, order_cols, vals, i) ==
    IF i > Len(order_cols) THEN FALSE
    ELSE LET a == row[order_cols[i].key]
         IN IF a = vals[i] THEN SortsAfterFrom(row, order_cols, vals, i + 1)
            ELSE IF SortsDescending(order_cols[i]) THEN a.n < vals[i].n
            ELSE a.n > vals[i].n

(* ------------------- executing a statement on a table ------------------- *)
\* the values of row b in the columns of the ordering
KeyTuple(b, order_cols) == [i \in 1..Len(order_cols) |-> b[order_cols[i].key]]
\* the sequences holding every row of the set S once
Perms(S) ==
    { sq \in [1..Cardinality(S) -> S] :
        \A i, j \in 1..Cardinality(S) : sq[i] = sq[j] => i = j }
\* the orders in which ORDER BY order_cols may return the rows of S: rows
\* that agree on every ordering column come in any order
Sorted(S, order_cols) ==
    { sq \in Perms(S) :
        \A i, j \in 1..Len(sq) :
            i < j => ~SortsAfterFrom(sq[i], order_cols, KeyTuple(sq[j], order_cols), 1) }
Min(a, b) == IF a < b THEN a ELSE b
\* the results the data store may return for the statement: the rows that
\* satisfy every WHERE criterion, sorted, after OFFSET and up to LIMIT
Execute(s, rows) ==
    LET match == { r \in rows : \A i \in 1..Len(s.whereclause) : EvalPred(s.whereclause[i], r) }
        skip == IF IsNone(s.offset) THEN 0 ELSE Get(s.offset)
    IN { SubSeq(sq, skip + 1,
                IF IsNone(s.limit) THEN Len(sq) ELSE Min(Len(sq), skip + Get(s.limit))) :
           sq \in Sorted(match, s.order_by) }

(* ----------------------- BaseRepository.get_list ------------------------ *)
\* a new ListQuery(model, flt=None) as the compiler reads it
NewQuery(m) ==
    [model |-> m, filter |-> None, order_items |-> OrderNone, mode |-> "NONE",
     cursor |-> None, cursor_size |-> None, page |-> None, offset_size |-> None]
\* a dispatch that looks at page and size before the cursor
GetListQuery_page_first(m, flt, ob, cur, pg, size) ==
    LET q1 == [NewQuery(m) EXCEPT !.filter = flt,
                                  !.order_items = IF Truthy(ob) THEN ob ELSE OrderNone]
    IN IF ~IsNone(pg) /\ ~IsNone(size) THEN
           IF Get(size) <= 0 THEN Raise("ValueError")
           ELSE Ok([q1 EXCEPT !.mode = "OFFSET", !.page = pg, !.offset_size = size])
       ELSE IF ~IsNone(cur) THEN
           IF ~Truthy(q1.order_items) THEN Raise("ValueError")
           ELSE IF IsNone(size) THEN Raise("ValueError")
           ELSE IF Get(size) <= 0 THEN Raise("ValueError")
           ELSE Ok([q1 EXCEPT !.mode = "CURSOR", !.cursor = cur, !.cursor_size = size])
       ELSE Ok(q1)
\* the builder get_list configures from its arguments (flt, cur, pg and size
\* are Optional), or the error one of the builder calls raises
GetListQuery(m, flt, ob, cur, pg, size) ==
    LET q1 == [NewQuery(m) EXCEPT !.filter = flt,
                                  !.order_items = IF Truthy(ob) THEN ob ELSE OrderNone]
    IN IF ~IsNone(cur) THEN
           IF ~Truthy(q1.order_items) THEN Raise("ValueError")
           ELSE IF IsNone(size) THEN Raise("ValueError")
           ELSE IF Get(size) <= 0 THEN Raise("ValueError")
           ELSE Ok([q1 EXCEPT !.mode = "CURSOR", !.cursor = cur, !.cursor_size = size])
       ELSE IF ~IsNone(pg) /\ ~IsNone(size) THEN
           IF Get(size) <= 0 THEN Raise("ValueError")
           ELSE Ok([q1 EXCEPT !.mode = "OFFSET", !.page = pg, !.offset_size = size])
       ELSE Ok(q1)

(* ------------------ following cursors page after page ------------------- *)
\* the caller's next cursor: the last row's values in the ordering columns
RowCursor(row, order_cols) ==
    [i \in 1..Len(order_cols) |-> KV(order_cols[i].key, row[order_cols[i].key])]
\* the rows a table may hold: the primary key id is 0..MaxRows-1, category
\* and value2 take two values each, so that rows can tie on them
TableRows ==
    { [id |-> IntV(i), category |-> StrV(c), value2 |-> IntV(v)] :
        i \in 0..(MaxRows - 1), c \in {0, 1}, v \in {0, 1} }
\* the tables: at most one row per primary key
Snapshots ==
    { S \in SUBSET TableRows : \A a, b \in S : a.id = b.id => a = b }
\* the order_by arguments of the walks
WalkOrders ==
    { OrderSeq(<<Attr("id")>>),
      OrderSeq(<<Str("category")>>),
      OrderSeq(<<Str("category"), Attr("id")>>),
      OrderSeq(<<Attr("value2"), Asc(Attr("category"))>>),
      OrderSeq(<<Desc(Attr("id"))>>),
      OrderSeq(<<Desc(Attr("value2"))>>),
      OrderSeq(<<Asc(Attr("category")), Desc(Attr("value2")), Asc(Attr("id"))>>) }
\* the repeated call get_list(order_by=, cursor=next_cursor, size=)
WalkCall(ob, size) == [fn |-> "get_list", order_by |-> ob, size |-> size]

InitWalk ==
    /\ InitBuilder("PerfResult", None)
    /\ \E ob \in WalkOrders, size \in 1..MaxSize : fcall = WalkCall(ob, size)
    /\ fres = NoRes
    /\ snapshot \in Snapshots
    /\ pages = <<>>
    /\ next_cursor = Some(<<>>)

\* one get_list call: a builder is configured, compiled and sealed, the
\* statement is executed on the snapshot, and the caller takes the next
\* cursor from the last row; a page shorter than size ends the walk
fetch_page ==
    /\ fcall.fn = "get_list" /\ ~fres.done
    /\ LET b == GetListQuery(model, None, fcall.order_by, next_cursor, None,
                             Some(fcall.size))
           r == IF b.err # "none" THEN b ELSE BuildListQuery(b.val)
       IN IF r.err # "none"
          THEN /\ fres' = [done |-> TRUE, err |-> r.err, val |-> <<>>]
               /\ UNCHANGED <<fields, op, arg, err, stmt, pages, next_cursor>>
          ELSE \E rows \in Execute(r.val, snapshot) :
               /\ pages' = Append(pages, rows)
               /\ next_cursor' = IF Len(rows) = 0 THEN next_cursor
                                 ELSE Some(RowCursor(rows[Len(rows)], r.val.order_by))
               /\ fres' = [done |-> Len(rows) < fcall.size, err |-> "none",
                           val |-> r.val]
               /\ filter' = b.val.filter /\ order_items' = b.val.order_items
               /\ mode' = b.val.mode /\ cursor' = b.val.cursor
               /\ cursor_size' = b.val.cursor_size /\ page' = b.val.page
               /\ offset_size' = b.val.offset_size
               /\ sealed' = TRUE
               /\ op' = "get_list" /\ arg' = NoArg /\ err' = "none"
               /\ stmt' = Some(r.val)
               /\ UNCHANGED model
    /\ UNCHANGED <<fcall, snapshot>>

SpecWalk == InitWalk /\ [][fetch_page]_vars

(* ------------- BaseRepository.get_list and execute, called -------------- *)
\* a session property that prefers the constructor's session
RepoSession_specific_first(provider, specific_session) ==
    IF ~IsNone(specific_session) THEN Ok(Get(specific_session))
    ELSE IF ~IsNone(provider) THEN Ok(Get(provider))
    ELSE Raise("RuntimeError")
\* BaseRepository.session: provider is the session the configured
\* SessionProvider returns from get_session(), None when none is configured
RepoSession(provider, specific_session) ==
    IF IsNone(provider) THEN
        IF IsNone(specific_session) THEN Raise("RuntimeError")
        ELSE Ok(Get(specific_session))
    ELSE Ok(Get(provider))

\* BaseRepository._resolve_session(session)
ResolveSession(session, provider, specific_session) ==
    IF ~IsNone(session) THEN Ok(Get(session))
    ELSE RepoSession(provider, specific_session)

\* a value passed as q_or_stmt: a "ListQuery" holding a builder, a "Select"
\* holding a statement, or another statement such as an "Insert"
QueryOrStmt(cls, val) == [cls |-> cls, val |-> val]

\* query_to_stmt(q_or_stmt)
QueryToStmt(q_or_stmt) ==
    IF q_or_stmt.cls = "ListQuery" THEN BuildListQuery(q_or_stmt.val)
    ELSE Raise("TypeError")

\* BaseRepository.execute up to the session's execute call: the statement
\* handed over and the session it is handed to, or the error raised
RepoExecute(q_or_stmt, session, provider, specific_session) ==
    LET st == QueryToStmt(q_or_stmt)
    IN IF st.err # "none" THEN st
       ELSE LET s == ResolveSession(session, provider, specific_session)
            IN IF s.err # "none" THEN s
               ELSE Ok([stmt |-> st.val, session |-> s.val])

\* one call on a repository with the given provider and constructor
\* session: repo.get_list(flt=, order_by=, cursor=, page=, size=, session=)
\* or repo.execute(q_or_stmt, session=)
InitRepo ==
    LET orders == { OrderNone, OrderSeq(<<>>), OrderSeq(<<Attr("id")>>),
                    OrderSeq(<<Str("nope")>>) }
        cursors == { None, Some(<<>>), Some(<<KV("id", IntV(MaxVal))>>),
                     Some(<<KV("category", StrV(0))>>) }
        ints(lo, hi) == {None} \cup { Some(n) : n \in lo..hi }
        builders == { b \in { GetListQuery("PerfResult", None, ob, cur, pg, Some(1)) :
                                ob \in orders, cur \in cursors, pg \in ints(0, 1) } :
                        b.err = "none" }
        inputs == { QueryOrStmt("ListQuery", b.val) : b \in builders }
                  \cup { QueryOrStmt("Select", s) : s \in OffsetStmts }
                  \cup { QueryOrStmt("Insert", <<>>) }
    IN /\ InitBuilder("PerfResult", None)
       /\ \E session \in {None, Some("method")}, provider \in {None, Some("provider")},
             specific_session \in {None, Some("specific")} :
             \/ \E flt \in {None, Some("fA")}, ob \in orders, cur \in cursors,
                   pg \in ints(0, MaxPage), size \in ints(0, MaxSize) :
                   fcall = [fn |-> "get_list", flt |-> flt, order_by |-> ob,
                            cursor |-> cur, page |-> pg, size |-> size,
                            session |-> session, provider |-> provider,
                            specific_session |-> specific_session]
             \/ \E x \in inputs :
                   fcall = [fn |-> "execute", q_or_stmt |-> x, session |-> session,
                            provider |-> provider,
                            specific_session |-> specific_session]
       /\ fres = NoRes
       /\ NoTable

\* the builder variables take the ListQuery that was compiled and sealed
Compiled(q, s) ==
    /\ filter' = q.filter /\ order_items' = q.order_items
    /\ mode' = q.mode /\ cursor' = q.cursor
    /\ cursor_size' = q.cursor_size /\ page' = q.page
    /\ offset_size' = q.offset_size
    /\ sealed' = TRUE
    /\ arg' = NoArg /\ err' = "none"
    /\ stmt' = Some(s)
    /\ UNCHANGED model

\* one get_list call: the builder is configured from the arguments, the
\* session is resolved, and execute compiles the builder and hands the
\* statement to the session
get_list ==
    /\ fcall.fn = "get_list" /\ ~fres.done
    /\ LET b == GetListQuery(model, fcall.flt, fcall.order_by, fcall.cursor,
                             fcall.page, fcall.size)
           s == IF b.err # "none" THEN b
                ELSE ResolveSession(fcall.session, fcall.provider, fcall.specific_session)
           r == IF s.err # "none" THEN s
                ELSE RepoExecute(QueryOrStmt("ListQuery", b.val), Some(s.val), fcall.provider,
                                 fcall.specific_session)
       IN /\ fres' = [done |-> TRUE, err |-> r.err, val |-> r.val]
          /\ IF r.err # "none"
             THEN UNCHANGED <<fields, op, arg, err, stmt>>
             ELSE op' = "get_list" /\ Compiled(b.val, r.val.stmt)
    /\ UNCHANGED <<fcall, table>>

\* one execute call
execute ==
    /\ fcall.fn = "execute" /\ ~fres.done
    /\ LET r == RepoExecute(fcall.q_or_stmt, fcall.session, fcall.provider,
                            fcall.specific_session)
       IN /\ fres' = [done |-> TRUE, err |-> r.err, val |-> r.val]
          /\ IF r.err = "none" /\ fcall.q_or_stmt.cls = "ListQuery"
             THEN op' = "execute" /\ Compiled(fcall.q_or_stmt.val, r.val.stmt)
             ELSE UNCHANGED <<fields, op, arg, err, stmt>>
    /\ UNCHANGED <<fcall, table>>

SpecRepo == InitRepo /\ [][get_list \/ execute]_vars

(* -------- paging() and with_cursor() called by two callers at once ------- *)
(* ListQuery takes no lock, so another caller can run between the checks of *)
(* a method and its assignments.  Each of the two calls is split there:     *)
(* its pc goes from "called" to "checked" or "raised", and from "checked"   *)
(* to "returned".                                                           *)
\* one builder, after ListQuery(model).order_by(items), on which one caller
\* calls paging(page=, size=) and another with_cursor(cursor)
InitRace ==
    /\ model = "PerfResult" /\ filter = None
    /\ order_items \in { OrderSeq(<<Attr("id")>>), OrderSeq(<<>>),
                         OrderSeq(<<Str("category"), Desc(Attr("id"))>>) }
    /\ mode = "NONE" /\ cursor = None /\ cursor_size = None
    /\ page = None /\ offset_size = None /\ sealed = FALSE
    /\ op = "order_by" /\ arg = [NoArg EXCEPT !.items = order_items]
    /\ err = "none" /\ stmt = None
    /\ \E pg \in 1..MaxPage, size \in 0..MaxSize,
          c \in { None, Some(<<>>), Some(<<KV("id", IntV(MaxVal))>>) } :
          fcall = [fn |-> "race",
                   paging |-> [pc |-> "called", page |-> pg, size |-> size],
                   with_cursor |-> [pc |-> "called", cursor |-> c]]
    /\ fres = NoRes
    /\ NoTable

\* paging(): _ensure_mutable and the three checks
paging_check ==
    /\ fcall.fn = "race" /\ fcall.paging.pc = "called"
    /\ LET e == IF EnsureMutable # "none" THEN EnsureMutable
                ELSE IF PagingInCursorMode THEN "ValueError"
                ELSE IF PagingAlreadySet THEN "ValueError"
                ELSE IF PagingSizeInvalid(fcall.paging.size) THEN "ValueError"
                ELSE "none"
       IN IF e # "none"
          THEN /\ fcall' = [fcall EXCEPT !.paging.pc = "raised"]
               /\ op' = "paging" /\ err' = e
               /\ arg' = [NoArg EXCEPT !.page = fcall.paging.page,
                                       !.size = fcall.paging.size]
          ELSE /\ fcall' = [fcall EXCEPT !.paging.pc = "checked"]
               /\ UNCHANGED <<op, arg, err>>
    /\ UNCHANGED <<fields, stmt, fres, table>>

\* paging(): the assignments and the return
paging_write ==
    /\ fcall.fn = "race" /\ fcall.paging.pc = "checked"
    /\ page' = Some(fcall.paging.page)
    /\ offset_size' = Some(fcall.paging.size)
    /\ mode' = "OFFSET"
    /\ fcall' = [fcall EXCEPT !.paging.pc = "returned"]
    /\ op' = "paging" /\ err' = "none"
    /\ arg' = [NoArg EXCEPT !.page = fcall.paging.page, !.size = fcall.paging.size]
    /\ UNCHANGED <<model, filter, order_items, cursor, cursor_size, sealed,
                   stmt, fres, table>>

\* with_cursor(): _ensure_mutable and the two checks
with_cursor_check ==
    /\ fcall.fn = "race" /\ fcall.with_cursor.pc = "called"
    /\ LET e == IF EnsureMutable # "none" THEN EnsureMutable
                ELSE IF WithCursorInOffsetMode THEN "ValueError"
                ELSE IF CursorWithoutOrdering THEN "ValueError"
                ELSE "none"
       IN IF e # "none"
          THEN /\ fcall' = [fcall EXCEPT !.with_cursor.pc = "raised"]
               /\ op' = "with_cursor" /\ err' = e
               /\ arg' = [NoArg EXCEPT !.cursor = fcall.with_cursor.cursor]
          ELSE /\ fcall' = [fcall EXCEPT !.with_cursor.pc = "checked"]
               /\ UNCHANGED <<op, arg, err>>
    /\ UNCHANGED <<fields, stmt, fres, table>>

\* with_cursor(): the assignments and the return
with_cursor_write ==
    /\ fcall.fn = "race" /\ fcall.with_cursor.pc = "checked"
    /\ cursor' = IF IsNone(fcall.with_cursor.cursor) THEN Some(<<>>)
                 ELSE fcall.with_cursor.cursor
    /\ mode' = "CURSOR"
    /\ fcall' = [fcall EXCEPT !.with_cursor.pc = "returned"]
    /\ op' = "with_cursor" /\ err' = "none"
    /\ arg' = [NoArg EXCEPT !.cursor = fcall.with_cursor.cursor]
    /\ UNCHANGED <<model, filter, order_items, cursor_size, page, offset_size,
                   sealed, stmt, fres, table>>

SpecRace ==
    InitRace /\ [][paging_check \/ paging_write \/ with_cursor_check
                   \/ with_cursor_write]_vars

(* ---------------------- litestar: apply_pagination ---------------------- *)
(* A cursor string is modelled by how far decoding gets: "empty" is the     *)
(* empty string, "badb64" fails in urlsafe_b64decode (binascii.Error, a     *)
(* ValueError), "badutf8" in bytes.decode, "badjson" in json.loads, and     *)
(* "json" decodes to the dict in its value field.                           *)
CursorString(layer, value) == [layer |-> layer, value |-> value]

\* a helper that lets a decoding failure out
PaginationCursor_raising(c) ==
    IF IsNone(c) \/ Get(c).layer = "empty" THEN Ok(<<>>)
    ELSE IF Get(c).layer = "badb64" THEN Raise("ValueError")
    ELSE IF Get(c).layer = "badutf8" THEN Raise("UnicodeDecodeError")
    ELSE IF Get(c).layer = "badjson" THEN Raise("JSONDecodeError")
    ELSE Ok(Get(c).value)
\* the dict apply_pagination passes to with_cursor (cursor_dict or {}) for
\* the Optional cursor string c: a falsy string is not decoded, and the three
\* decoding errors are caught and replaced by {}
PaginationCursor(c) ==
    IF IsNone(c) \/ Get(c).layer = "empty" THEN Ok(<<>>)
    ELSE IF Get(c).layer \in {"badb64", "badutf8", "badjson"} THEN Ok(<<>>)
    ELSE Ok(Get(c).value)

\* a builder as a request handler holds it, with or without an ordering,
\* possibly in OFFSET mode already or sealed, and the pagination object of
\* the request
InitPagination ==
    /\ model = "PerfResult" /\ filter = None
    /\ order_items \in { OrderNone, OrderSeq(<<Str("id")>>) }
    /\ \/ mode = "NONE" /\ page = None /\ offset_size = None
       \/ mode = "OFFSET" /\ page = Some(1) /\ offset_size = Some(1)
    /\ cursor = None /\ cursor_size = None
    /\ sealed \in BOOLEAN
    /\ op = "new" /\ arg = NoArg /\ err = "none" /\ stmt = None
    /\ \/ \E pg \in 1..MaxPage, size \in 0..MaxSize :
             fcall = [fn |-> "apply_pagination", cls |-> "OffsetPagination",
                      page |-> pg, size |-> size]
       \/ \E lim \in 0..MaxSize,
             c \in { None, Some(CursorString("empty", <<>>)),
                     Some(CursorString("badb64", <<>>)),
                     Some(CursorString("badutf8", <<>>)),
                     Some(CursorString("badjson", <<>>)),
                     Some(CursorString("json", <<>>)),
                     Some(CursorString("json", <<KV("id", IntV(MaxVal))>>)) } :
             fcall = [fn |-> "apply_pagination", cls |-> "CursorPagination",
                      cursor |-> c, limit |-> lim]
    /\ fres = NoRes
    /\ NoTable

\* apply_pagination(q, pagination): q.paging(page=, size=) for an
\* OffsetPagination; for a CursorPagination q.with_cursor(cursor_dict or {})
\* and then q.limit(limit), the second call not made when the first raises
apply_pagination ==
    /\ fcall.fn = "apply_pagination" /\ ~fres.done
    /\ op' = "apply_pagination" /\ arg' = NoArg /\ stmt' = None
    /\ UNCHANGED <<fcall, table>>
    /\ IF fcall.cls = "OffsetPagination" THEN
           IF EnsureMutable # "none" THEN Raises(EnsureMutable)
           ELSE IF PagingInCursorMode THEN Raises("ValueError")
           ELSE IF PagingAlreadySet THEN Raises("ValueError")
           ELSE IF PagingSizeInvalid(fcall.size) THEN Raises("ValueError")
           ELSE /\ page' = Some(fcall.page)
                /\ offset_size' = Some(fcall.size)
                /\ mode' = "OFFSET"
                /\ err' = "none"
                /\ UNCHANGED <<model, filter, order_items, cursor, cursor_size, sealed>>
       ELSE LET d == PaginationCursor(fcall.cursor)
            IN IF d.err # "none" THEN Raises(d.err)
               ELSE IF EnsureMutable # "none" THEN Raises(EnsureMutable)
               ELSE IF WithCursorInOffsetMode THEN Raises("ValueError")
               ELSE IF CursorWithoutOrdering THEN Raises("ValueError")
               ELSE /\ cursor' = Some(d.val)
                    /\ mode' = "CURSOR"
                    /\ UNCHANGED <<model, filter, order_items, page, offset_size, sealed>>
                    /\ IF LimitSizeInvalid(fcall.limit)
                       THEN err' = "ValueError" /\ UNCHANGED cursor_size
                       ELSE err' = "none" /\ cursor_size' = Some(fcall.limit)
    /\ fres' = [done |-> TRUE, err |-> err', val |-> <<>>]

SpecPagination == InitPagination /\ [][apply_pagination]_vars

(* ================== properties of KeysetStrategy.apply ================== *)
\* the call has returned a statement for a non-empty cursor
SeekBuilt ==
    /\ fcall.fn = "KeysetStrategy.apply" /\ fres.done /\ fres.err = "none"
    /\ ~IsNone(fcall.cursor) /\ Len(Get(fcall.cursor)) > 0
\* the seek predicate of the returned statement
Seek == fres.val.whereclause[Len(fres.val.whereclause)]
\* the key of ordering entry i, whatever its direction
OrderKey(i) == fcall.order_cols[i].key
\* the value the cursor holds for ordering entry i, as a value of the
\* column's type: "1" for an integer column is 1, 1 for a string column "1"
CursorTuple ==
    [i \in 1..Len(fcall.order_cols) |->
        LET v == Get(fcall.cursor)[i].val
        IN [k |-> PythonType(OrderKey(i)), n |-> v.n]]
AnyDescending == \E i \in 1..Len(fcall.order_cols) : SortsDescending(fcall.order_cols[i])

\* C4: for every ordering and every accepted non-empty cursor, the seek
\* predicate is true of a row exactly when the row sorts strictly after the
\* cursor tuple under the ordering's columns and directions.
C4_SeekIsStrictlyAfterCursor ==
    SeekBuilt =>
        /\ Len(fres.val.whereclause) = 1
        /\ \A row \in Rows :
              EvalPred(Seek, row) <=> SortsAfterFrom(row, fcall.order_cols, CursorTuple, 1)
\* a ladder was built for category asc, value2 desc, id asc and it selects
\* some rows and rejects others
C4_Witness ==
    /\ SeekBuilt
    /\ Len(fcall.order_cols) = 3 /\ AnyDescending
    /\ ~SortsDescending(fcall.order_cols[3])
    /\ \E r1, r2 \in Rows : EvalPred(Seek, r1) /\ ~EvalPred(Seek, r2)

(* ======================= properties of the builder ====================== *)
Mutators == {"where", "order_by", "with_cursor", "limit", "paging"}

\* C1: once _build_list_query has returned a statement the builder is sealed;
\* from then on every call of where, order_by, with_cursor, limit or paging
\* raises RuntimeError whatever its arguments, no field changes, and sealed
\* stays true.
C1_SealedBlocksMutators ==
    [][ /\ (op' = "build" /\ ~IsNone(stmt')) => sealed'
        /\ sealed => /\ sealed'
                      /\ fields' = fields
                      /\ (op' \in Mutators => err' = "RuntimeError") ]_vars
\* where(None) was called on a sealed builder and raised RuntimeError
C1_Witness ==
    sealed /\ op = "where" /\ IsNone(arg.flt) /\ err = "RuntimeError"

\* C2: a successful paging() puts the builder in OFFSET mode, where it stays,
\* and there every with_cursor() and every limit() raises; a successful
\* with_cursor() puts it in CURSOR mode, where it stays, and there every
\* paging() raises.
C2_OffsetKeysetExclusive ==
    [][ /\ (op' = "paging" /\ err' = "none") => mode' = "OFFSET"
        /\ (op' = "with_cursor" /\ err' = "none") => mode' = "CURSOR"
        /\ mode = "OFFSET" =>
              /\ mode' = "OFFSET"
              /\ (op' \in {"with_cursor", "limit"} => err' # "none")
        /\ mode = "CURSOR" =>
              /\ mode' = "CURSOR"
              /\ (op' = "paging" => err' # "none") ]_vars
\* with_cursor was refused on an unsealed builder in OFFSET mode
C2_Witness ==
    ~sealed /\ mode = "OFFSET" /\ op = "with_cursor" /\ err = "ValueError"

\* C3: the paging mode only ever moves from NONE to OFFSET or from NONE to
\* CURSOR; OFFSET and CURSOR are never left.
C3_ModeMonotone == [][ mode' # mode => mode = "NONE" /\ mode' \in {"OFFSET", "CURSOR"} ]_vars
\* paging was attempted on an unsealed builder in CURSOR mode, which stayed
\* in CURSOR mode
C3_Witness ==
    ~sealed /\ mode = "CURSOR" /\ op = "paging" /\ arg.size >= 1

\* C10 as stated: an order_by call on a builder whose ordering was set by an
\* earlier order_by call fails.
C10_OrderByOnlyOnce ==
    [][ (Truthy(order_items) /\ op' = "order_by") => err' # "none" ]_vars
\* C10 as amended: order_by fails exactly when the builder is sealed or in
\* CURSOR mode, and then leaves the ordering as it was; otherwise it succeeds
\* and replaces the ordering, also when one was set before.
C10_OrderByUntilCursor ==
    [][ op' = "order_by" =>
          IF sealed \/ mode = "CURSOR"
          THEN err' # "none" /\ order_items' = order_items
          ELSE err' = "none" /\ order_items' = arg'.items ]_vars
\* order_by was refused on an unsealed builder in CURSOR mode
C10_Witness ==
    ~sealed /\ mode = "CURSOR" /\ op = "order_by" /\ err = "ValueError"

\* C11: the filter is set at most once: where(f) with f not None raises
\* whenever a filter is present (from an earlier where() or from the
\* constructor), and a filter that is present never changes.
C11_FilterSetOnce ==
    [][ /\ ~IsNone(filter) => filter' = filter
        /\ (op' = "where" /\ ~IsNone(arg'.flt) /\ ~IsNone(filter)) => err' # "none" ]_vars
\* where(f) was refused on an unsealed builder holding another filter
C11_Witness ==
    /\ ~sealed /\ op = "where" /\ err = "ValueError"
    /\ ~IsNone(arg.flt) /\ ~IsNone(filter) /\ arg.flt # filter

\* C12: in CURSOR mode, that is after with_cursor has succeeded, every
\* order_by call raises, the raw ordering never changes, and a compile that
\* returns a statement orders it by the normalisation of that raw ordering.
C12_OrderingFixedByCursor ==
    [][ mode = "CURSOR" =>
          /\ order_items' = order_items
          /\ (op' = "order_by" => err' # "none")
          /\ (op' = "build" /\ ~IsNone(stmt')) =>
                Get(stmt').order_by = OrderByApply(model, order_items).val ]_vars
\* a builder in CURSOR mode holding a three-column ordering and a cursor for
\* it was compiled: the statement is ordered by the three columns and carries
\* the seek predicate
C12_Witness ==
    /\ mode = "CURSOR" /\ op = "build" /\ ~IsNone(stmt)
    /\ Len(Get(stmt).order_by) = 3
    /\ Len(Get(stmt).whereclause) > 0

\* C13: with_cursor raises and leaves the mode as it was (never CURSOR) when
\* no ordering was set or the ordering set is empty; so a builder in CURSOR
\* mode always holds a non-empty ordering.
C13_CursorNeedsOrdering ==
    /\ [](mode = "CURSOR" => Truthy(order_items))
    /\ [][ (op' = "with_cursor" /\ ~Truthy(order_items)) =>
              /\ err' # "none"
              /\ mode' = mode /\ mode' # "CURSOR"
              /\ cursor' = cursor ]_vars
\* with_cursor was refused on a fresh-mode builder whose ordering is the
\* empty sequence
C13_Witness ==
    /\ ~sealed /\ mode = "NONE" /\ op = "with_cursor" /\ err = "ValueError"
    /\ order_items = OrderSeq(<<>>)

\* C14: paging() is single-use: in OFFSET mode, that is after one successful
\* paging(page, size), every paging call raises and the stored page and
\* offset size stay those of the first call.
C14_PagingSingleUse ==
    [][ mode = "OFFSET" =>
          /\ page' = page /\ offset_size' = offset_size
          /\ (op' = "paging" => err' # "none") ]_vars
\* a second paging() with a valid size and another page was refused
C14_Witness ==
    /\ ~sealed /\ mode = "OFFSET" /\ op = "paging" /\ err = "ValueError"
    /\ arg.size >= 1 /\ arg.page >= 1 /\ Some(arg.page) # page

\* C15: cursor_size and offset_size are each unset or >= 1; limit(size) and
\* paging(page, size) raise for size < 1 and store nothing.
C15_SizesPositive ==
    /\ []( /\ (IsNone(cursor_size) \/ Get(cursor_size) >= 1)
           /\ (IsNone(offset_size) \/ Get(offset_size) >= 1) )
    /\ [][ (op' \in {"limit", "paging"} /\ arg'.size < 1) =>
              err' # "none" /\ fields' = fields ]_vars
\* limit(0) was refused on an unsealed builder outside OFFSET mode that keeps
\* the size stored before
C15_Witness ==
    /\ ~sealed /\ mode # "OFFSET" /\ op = "limit" /\ arg.size = 0
    /\ err = "ValueError" /\ ~IsNone(cursor_size)

\* C16 as stated: the stored page number is unset or >= 1.
C16_StoredPagePositive == IsNone(page) \/ Get(page) >= 1
\* C16 as amended: paging() stores the page number unchecked; a stored page
\* below 1 is rejected when the builder is compiled: the compile raises
\* (ValueError from the offset strategy when the filter and the ordering are
\* accepted) and returns no statement, so every statement compiled in OFFSET
\* mode comes from a page >= 1.
C16_PageCheckedAtCompile ==
    [][ /\ (op' = "paging" /\ err' = "none") => page' = Some(arg'.page)
        /\ (op' = "build" /\ ~IsNone(page) /\ Get(page) < 1) =>
              /\ err' # "none" /\ IsNone(stmt') /\ ~sealed'
              /\ (ApplyWhere(Select(model), Q).err = "none"
                    /\ ComputeOrderCols(Q).err = "none") => err' = "ValueError"
        /\ (op' = "build" /\ ~IsNone(stmt') /\ mode = "OFFSET") => Get(page) >= 1 ]_vars
\* a builder with a valid filter and ordering and the stored page 0 was
\* compiled, and the compile raised
C16_Witness ==
    /\ op = "build" /\ err = "ValueError" /\ page = Some(0) /\ ~sealed
    /\ ApplyWhere(Select(model), Q).err = "none"
    /\ ComputeOrderCols(Q).err = "none"

\* C18 as stated: compiling a sealed builder does not produce a statement.
C18_CompiledOnlyOnce ==
    [][ (sealed /\ op' = "build") => IsNone(stmt') ]_vars
\* C18 as amended: the compiler does not look at the seal: compiling a sealed
\* builder again succeeds and returns a statement, the one the compile
\* before it returned; the builder stays sealed and no field changes.
C18_RecompileSameStatement ==
    [][ (sealed /\ op' = "build") =>
          /\ err' = "none" /\ ~IsNone(stmt')
          /\ sealed' /\ fields' = fields
          /\ (op = "build" => stmt' = stmt) ]_vars
\* a sealed builder in OFFSET mode whose last call was a compile that
\* returned the statement of its page
C18_Witness ==
    /\ sealed /\ op = "build" /\ ~IsNone(stmt) /\ mode = "OFFSET"
    /\ Get(stmt).offset = Some((Get(page) - 1) * Get(offset_size))

\* C19: a compile that raises returns no statement and leaves the builder
\* unsealed with every field unchanged; a compile that returns a statement
\* seals the builder; sealed turns true in no other step.
C19_FailedCompileLeavesBuilder ==
    [][ /\ (op' = "build" /\ err' # "none") =>
              IsNone(stmt') /\ ~sealed' /\ fields' = fields
        /\ (op' = "build" /\ err' = "none") => ~IsNone(stmt') /\ sealed'
        /\ (sealed' /\ ~sealed) => op' = "build" /\ ~IsNone(stmt') ]_vars
\* a compile in CURSOR mode with an accepted filter and ordering and a size
\* raised TypeError on the cursor value and left the builder unsealed
C19_Witness ==
    /\ ~sealed /\ op = "build" /\ err = "TypeError" /\ IsNone(stmt)
    /\ mode = "CURSOR" /\ ~IsNone(cursor_size)
    /\ ApplyWhere(Select(model), Q).err = "none"
    /\ ComputeOrderCols(Q).err = "none"

\* C20: for page >= 1 and size >= 1 OffsetStrategy.apply returns the statement
\* given with row-skip (page - 1) * size and row-limit size and nothing else
\* changed; for page < 1 or size < 1 it raises ValueError and returns no
\* statement.
C20_OffsetSkipAndLimit ==
    (fcall.fn = "OffsetStrategy.apply" /\ fres.done) =>
        IF fcall.page >= 1 /\ fcall.size >= 1
        THEN /\ fres.err = "none"
             /\ fres.val.offset = Some((fcall.page - 1) * fcall.size)
             /\ fres.val.limit = Some(fcall.size)
             /\ fres.val.whereclause = fcall.stmt.whereclause
             /\ fres.val.order_by = fcall.stmt.order_by
        ELSE fres.err = "ValueError" /\ fres.val = <<>>
\* page 3, size 10 gave skip 20, limit 10
C20_Witness ==
    /\ fcall.fn = "OffsetStrategy.apply" /\ fres.done
    /\ fcall.page = 3 /\ fcall.size = 10
    /\ fres.err = "none"
    /\ fres.val.offset = Some(20) /\ fres.val.limit = Some(10)

\* C21: every statement KeysetStrategy.apply returns has the row-limit size
\* and the ORDER BY and OFFSET of the statement given; with the cursor None
\* or {} nothing else is added (no seek predicate), and with a non-empty
\* cursor exactly one criterion, the seek predicate, is added as well.
C21_KeysetAlwaysLimits ==
    (fcall.fn = "KeysetStrategy.apply" /\ fres.done /\ fres.err = "none") =>
        /\ fres.val.limit = Some(fcall.size)
        /\ fres.val.offset = Select(model).offset
        /\ fres.val.order_by = Select(model).order_by
        /\ IF IsNone(fcall.cursor) \/ Len(Get(fcall.cursor)) = 0
           THEN fres.val.whereclause = Select(model).whereclause
           ELSE /\ Len(fres.val.whereclause) = Len(Select(model).whereclause) + 1
                /\ fres.val.whereclause[Len(fres.val.whereclause)].t
                      \in {"cmp", "tuple_gt", "or"}
\* a page after a two-column cursor: the seek predicate and the limit 2
C21_Witness ==
    /\ fcall.fn = "KeysetStrategy.apply" /\ fres.done /\ fres.err = "none"
    /\ ~IsNone(fcall.cursor) /\ Len(Get(fcall.cursor)) = 2
    /\ Len(fres.val.whereclause) = 1 /\ fres.val.limit = Some(2)

\* C22: KeysetStrategy.apply raises ValueError and returns no statement when
\* order_cols is empty or size < 1, whatever the cursor, the first page
\* (cursor None or {}) included.
C22_KeysetPreconditions ==
    (fcall.fn = "KeysetStrategy.apply" /\ fres.done
       /\ (Len(fcall.order_cols) = 0 \/ fcall.size < 1)) =>
        fres.err = "ValueError" /\ fres.val = <<>>
\* a first page (cursor {}) asked with size 0 on a one-column ordering
C22_Witness ==
    /\ fcall.fn = "KeysetStrategy.apply" /\ fres.done
    /\ Len(fcall.order_cols) = 1 /\ fcall.cursor = Some(<<>>) /\ fcall.size = 0
    /\ fres.err = "ValueError"

(* ===================== properties of the normaliser ===================== *)
\* the first call has ended; the directive list it was given
FirstDone == fcall.fn = "OrderByStrategy.apply" /\ fcall.pass = 1 /\ fres.done
Given == fcall.order_items.items
GivenList == FirstDone /\ fcall.order_items.t = "seq" /\ Len(Given) > 0
\* the directive carries the descending tag
DirectiveDesc(d) == d.cls = "unary" /\ d.modifier = "desc"
\* the first directive that names the column
FirstIndex(key) ==
    CHOOSE i \in 1..Len(Given) :
        Given[i].key = key /\ \A j \in 1..(i - 1) : Given[j].key # key
\* the forms the normaliser is to reject, by what the directive is
RejectedForm(m, d) ==
    \/ d.cls \in {"str", "enum"} /\ d.key \notin ModelKeys(m)
    \/ d.owner \in {"other", "alias"}
    \/ (d.cls = "col" \/ (d.cls = "unary" /\ d.inner = "col")) /\ d.owner = "na"
    \/ d.cls \in {"func", "text", "none"}
    \/ d.cls = "unary" /\ d.inner \in {"func", "text"}
    \/ (d.cls = "attr" \/ (d.cls = "unary" /\ d.inner = "attr"))
          /\ d.owner = "self" /\ d.key \notin ModelKeys(m)

\* C23: the ordering returned for an accepted directive list has no two
\* entries on one column; it has one entry for each column named, with the
\* direction of the first directive naming it, in the order in which the
\* columns are first named.
C23_DedupFirstWins ==
    (GivenList /\ fres.err = "none") =>
        /\ \A i, j \in 1..Len(fres.val) : i # j => fres.val[i].key # fres.val[j].key
        /\ { fres.val[k].key : k \in 1..Len(fres.val) }
              = { Given[i].key : i \in 1..Len(Given) }
        /\ \A k \in 1..Len(fres.val) :
              IsDesc(fres.val[k]) <=> DirectiveDesc(Given[FirstIndex(fres.val[k].key)])
        /\ \A k, l \in 1..Len(fres.val) :
              k < l => FirstIndex(fres.val[k].key) < FirstIndex(fres.val[l].key)
\* normalize(["id", "id"]) is normalize(["id"])
C23_Witness ==
    /\ FirstDone /\ fcall.model = "PerfResult"
    /\ fcall.order_items = OrderSeq(<<Str("id"), Str("id")>>)
    /\ fres.err = "none"
    /\ fres.val = OrderByApply("PerfResult", OrderSeq(<<Str("id")>>)).val
    /\ Len(fres.val) = 1

C25_PkFallback ==
    (FirstDone /\ fcall.order_items \in {OrderNone, OrderSeq(<<>>)}) =>
        IF PrimaryKey(fcall.model) = <<>>
        THEN fres.err = "ValueError" /\ fres.val = <<>>
        ELSE /\ fres.err = "none"
             /\ Len(fres.val) = Len(PrimaryKey(fcall.model))
             /\ \A i \in 1..Len(fres.val) :
                   /\ fres.val[i].key = PrimaryKey(fcall.model)[i]
                   /\ fres.val[i].cls = "col" /\ ~IsDesc(fres.val[i])
\* the composite key: an empty list gave tenant_id, item_id
C25_Witness ==
    /\ FirstDone /\ fcall.model = "CompositePK" /\ fcall.order_items = OrderSeq(<<>>)
    /\ fres.err = "none"
    /\ fres.val = <<Col("tenant_id"), Col("item_id")>>

C27_DirectionPreserved ==
    (GivenList /\ fres.err = "none"
       /\ \A i, j \in 1..Len(Given) : i # j => Given[i].key # Given[j].key) =>
        /\ Len(fres.val) = Len(Given)
        /\ \A i \in 1..Len(Given) :
              /\ fres.val[i].key = Given[i].key
              /\ IsDesc(fres.val[i]) <=> DirectiveDesc(Given[i])
              /\ fres.val[i] = IF Given[i].cls = "unary" THEN Given[i]
                                ELSE Col(Given[i].key)
\* a field name and an ascending-tagged column gave two ascending entries
C27_Witness ==
    /\ GivenList /\ fres.err = "none"
    /\ Given = <<Str("id"), Asc(Col("category"))>>
    /\ fres.val = <<Col("id"), Asc(Col("category"))>>

\* C17: the paging step dispatches on the mode alone.  In CURSOR mode it
\* raises ValueError when the cursor or the size is unset, and a statement it
\* returns carries the keyset limit.  In OFFSET mode it raises ValueError when
\* the page or the size is unset, and a statement it returns carries the
\* offset and limit of the page.  In NONE mode it returns the statement as
\* given, whatever the other fields hold.
C17_PagingDispatchesOnMode ==
    (fcall.fn = "_apply_paging" /\ fres.done) =>
        LET q == fcall.q
        IN /\ q.mode = "CURSOR" =>
                /\ (IsNone(q.cursor) \/ IsNone(q.cursor_size)) => fres.err = "ValueError"
                /\ fres.err = "none" =>
                      /\ fres.val.limit = q.cursor_size
                      /\ fres.val.offset = None
           /\ q.mode = "OFFSET" =>
                /\ (IsNone(q.page) \/ IsNone(q.offset_size)) => fres.err = "ValueError"
                /\ fres.err = "none" =>
                      /\ fres.val.limit = q.offset_size
                      /\ fres.val.offset = Some((Get(q.page) - 1) * Get(q.offset_size))
                      /\ fres.val.whereclause = fcall.stmt.whereclause
           /\ q.mode = "NONE" => fres.err = "none" /\ fres.val = fcall.stmt
\* order_by(..).with_cursor() without limit(): CURSOR mode, the cursor {} and
\* no size, and the paging step raised
C17_Witness ==
    /\ fcall.fn = "_apply_paging" /\ fres.done
    /\ fcall.q.mode = "CURSOR" /\ fcall.q.cursor = Some(<<>>)
    /\ IsNone(fcall.q.cursor_size) /\ IsNone(fcall.q.page) /\ IsNone(fcall.q.offset_size)
    /\ fres.err = "ValueError"

\* the call was made with a non-empty cursor and has ended
SeekAsked ==
    /\ fcall.fn = "KeysetStrategy.apply" /\ fres.done
    /\ ~IsNone(fcall.cursor) /\ Len(Get(fcall.cursor)) > 0
OrderKeys == [i \in 1..Len(fcall.order_cols) |-> OrderKey(i)]
GivenKeys == [i \in 1..Len(Get(fcall.cursor)) |-> Get(fcall.cursor)[i].key]

\* C6: with at least one descending entry the seek predicate is a disjunction
\* with one arm per ordering column, in order; arm i pins columns 1..i-1 to
\* their cursor values with == and compares column i with < if entry i is
\* descending and with > if it is ascending.
C6_LadderShape ==
    (SeekBuilt /\ AnyDescending) =>
        /\ Seek.t = "or"
        /\ Len(Seek.arms) = Len(fcall.order_cols)
        /\ \A i \in 1..Len(fcall.order_cols) :
              /\ Len(Seek.arms[i]) = i
              /\ \A j \in 1..i :
                    /\ Seek.arms[i][j].col.key = OrderKey(j)
                    /\ Seek.arms[i][j].val = CursorTuple[j]
                    /\ Seek.arms[i][j].o =
                          IF j < i THEN "=="
                          ELSE IF SortsDescending(fcall.order_cols[i]) THEN "<"
                          ELSE ">"
\* the spec's scenario: category asc, value2 desc, id asc with a cursor for
\* the three columns gives (category > c) OR (category == c AND value2 < v)
\* OR (category == c AND value2 == v AND id > i)
C6_Witness ==
    /\ SeekBuilt
    /\ fcall.order_cols = <<Asc(Attr("category")), Desc(Attr("value2")), Asc(Attr("id"))>>
    /\ Get(fcall.cursor) = <<KV("category", StrV(1)), KV("value2", IntV(2)),
                             KV("id", IntV(0))>>
    /\ Seek = OrLadder(<<
          <<Cmp(Attr("category"), ">", StrV(1))>>,
          <<Cmp(Attr("category"), "==", StrV(1)), Cmp(Attr("value2"), "<", IntV(2))>>,
          <<Cmp(Attr("category"), "==", StrV(1)), Cmp(Attr("value2"), "==", IntV(2)),
            Cmp(Attr("id"), ">", IntV(0))>> >>)

\* C7: with every entry ascending the seek predicate is the one comparison
\* col > v for one column and one tuple comparison (c1, .., cn) > (v1, .., vn)
\* for several; it is never an OR-ladder.
C7_AllAscendingShape ==
    (SeekBuilt /\ ~AnyDescending) =>
        /\ Len(fres.val.whereclause) = 1
        /\ IF Len(fcall.order_cols) = 1
           THEN /\ Seek.t = "cmp" /\ Seek.o = ">"
                /\ Seek.col.key = OrderKey(1)
                /\ Seek.val = CursorTuple[1]
           ELSE /\ Seek.t = "tuple_gt"
                /\ [i \in 1..Len(Seek.cols) |-> Seek.cols[i].key] = OrderKeys
                /\ Seek.vals = CursorTuple
\* a tuple comparison was built for three ascending columns
C7_Witness ==
    /\ SeekBuilt /\ ~AnyDescending
    /\ Len(fcall.order_cols) = 3
    /\ Seek.t = "tuple_gt"

\* C8: for a non-empty cursor a statement is returned only if the cursor's
\* keys, in iteration order, are the ordering's keys in order; a missing, an
\* extra or a reordered key raises ValueError and nothing is returned.
C8_CursorKeysMustMatch ==
    SeekAsked =>
        /\ fres.err = "none" => GivenKeys = OrderKeys
        /\ GivenKeys # OrderKeys => fres.err = "ValueError" /\ fres.val = <<>>
\* a cursor with the ordering's keys in another order was refused
C8_Witness ==
    /\ SeekAsked /\ fcall.size >= 1
    /\ Range(GivenKeys) = Range(OrderKeys) /\ GivenKeys # OrderKeys
    /\ Len(GivenKeys) = Len(OrderKeys)
    /\ fres.err = "ValueError"

\* whether a cursor value can stand for a value of Python type py
Coercible(v, py) ==
    \/ v.k = py
    \/ py = "int" /\ v.k = "str" /\ v.n < NonNumeric
    \/ py = "str" /\ v.k = "int"
\* predicate p compares column key with val
Constrains(p, key, val) ==
    CASE p.t = "cmp" -> p.col.key = key /\ p.val = val
      [] p.t = "tuple_gt" -> \E i \in 1..Len(p.cols) : p.cols[i].key = key /\ p.vals[i] = val
      [] p.t = "or" -> \E i \in 1..Len(p.arms) : \E j \in 1..Len(p.arms[i]) :
                           p.arms[i][j].col.key = key /\ p.arms[i][j].val = val
      [] OTHER -> FALSE
NullAt == { i \in 1..Len(Get(fcall.cursor)) : Get(fcall.cursor)[i].val.k = "null" }
UncoercibleAt ==
    { i \in 1..Len(Get(fcall.cursor)) :
        /\ Get(fcall.cursor)[i].val.k # "null"
        /\ ~Coercible(Get(fcall.cursor)[i].val, PythonType(Get(fcall.cursor)[i].key)) }

\* C9: no cursor key is silently dropped.  A call with a non-empty cursor
\* that returns has built a predicate comparing every ordering column with
\* its cursor value, taken after coercion to the column's type; with the
\* right keys, a null value raises ValueError and a value that cannot be
\* coerced raises TypeError (the first offending key decides when both occur).
C9_NoCursorKeyDropped ==
    /\ SeekBuilt =>
          /\ NullAt = {} /\ UncoercibleAt = {}
          /\ \A i \in 1..Len(fcall.order_cols) : Constrains(Seek, OrderKey(i), CursorTuple[i])
    /\ (SeekAsked /\ fcall.size >= 1 /\ GivenKeys = OrderKeys) =>
          /\ (NullAt = {} /\ UncoercibleAt = {}) => fres.err = "none"
          /\ (NullAt # {} /\ UncoercibleAt = {}) => fres.err = "ValueError"
          /\ (NullAt = {} /\ UncoercibleAt # {}) => fres.err = "TypeError"
          /\ (NullAt # {} /\ UncoercibleAt # {}) => fres.err \in {"ValueError", "TypeError"}
\* the string "1" given for the integer column id is compared as the integer 1
C9_Witness ==
    /\ SeekBuilt
    /\ Get(fcall.cursor) = <<KV("id", StrV(1))>>
    /\ Seek = Cmp(Col("id"), ">", IntV(1))

(* ================= properties of walks along the cursors ================ *)
\* the walk has ended with a short page
WalkEnded == fcall.fn = "get_list" /\ fres.done /\ fres.err = "none"
\* the rows returned so far, in the order returned
RECURSIVE Concat(_, _)
Concat(pp, i) == IF i > Len(pp) THEN <<>> ELSE pp[i] \o Concat(pp, i + 1)
Returned == Concat(pages, 1)
\* every row of the snapshot was returned, and none twice
EachRowOnce ==
    /\ Range(Returned) = snapshot
    /\ Len(Returned) = Cardinality(snapshot)
\* the canonical ordering of the walk's statements
WalkOrdering == fres.val.order_by
AllAscending == \A i \in 1..Len(WalkOrdering) : ~SortsDescending(WalkOrdering[i])
\* no two rows of the snapshot agree on all ordering columns
OrderingIdentifiesRows ==
    \A a, b \in snapshot :
        KeyTuple(a, WalkOrdering) = KeyTuple(b, WalkOrdering) => a = b

\* C5 as stated: on any all-ascending ordering, following the cursors from
\* cursor = {} returns every row of the snapshot, none twice.
C5_AscendingWalkComplete ==
    (WalkEnded /\ AllAscending) => EachRowOnce
\* C5 as amended: the same, for all-ascending orderings whose columns jointly
\* identify each row of the snapshot (rows hold no nulls).
C5_AscendingUniqueWalkComplete ==
    (WalkEnded /\ AllAscending /\ OrderingIdentifiesRows) => EachRowOnce
\* a walk over three rows on (category, id), both ascending, ended after
\* more than one page, rows tying on category
C5_Witness ==
    /\ WalkEnded /\ AllAscending /\ OrderingIdentifiesRows
    /\ Len(WalkOrdering) = 2
    /\ Cardinality(snapshot) = 3 /\ Len(pages) > 2
    /\ \E a, b \in snapshot : a # b /\ a.category = b.category

(* ============ properties of BaseRepository.get_list and execute ========= *)
\* a get_list call has returned or raised
GetListDone == fcall.fn = "get_list" /\ fres.done
\* an execute call has returned or raised
ExecuteDone == fcall.fn = "execute" /\ fres.done
\* the statement the call handed to the session
Handed == fres.val.stmt

\* C28: get_list chooses the paging mode from its arguments.  When a cursor
\* is supplied ({} included) the call is a keyset call whatever page is: it
\* raises ValueError unless order_by is non-empty and size is given, and a
\* statement it hands over has LIMIT size and no OFFSET.  With no cursor and
\* both page and size it is an offset call: OFFSET (page-1)*size, LIMIT
\* size.  Otherwise the statement has neither OFFSET nor LIMIT.
C28_GetListChoosesMode ==
    GetListDone =>
        IF ~IsNone(fcall.cursor) THEN
            /\ (~Truthy(fcall.order_by) \/ IsNone(fcall.size)) => fres.err = "ValueError"
            /\ fres.err = "none" =>
                   /\ mode = "CURSOR"
                   /\ Handed.limit = fcall.size
                   /\ IsNone(Handed.offset)
        ELSE IF ~IsNone(fcall.page) /\ ~IsNone(fcall.size) THEN
            fres.err = "none" =>
                /\ mode = "OFFSET"
                /\ Handed.limit = fcall.size
                /\ Handed.offset = Some((Get(fcall.page) - 1) * Get(fcall.size))
        ELSE
            fres.err = "none" =>
                /\ mode = "NONE"
                /\ IsNone(Handed.limit)
                /\ IsNone(Handed.offset)
\* get_list(order_by=[id], cursor={}, page=, size=) has handed over a keyset
\* statement although a page was given too
C28_Witness ==
    /\ GetListDone /\ fres.err = "none"
    /\ fcall.cursor = Some(<<>>) /\ ~IsNone(fcall.page)
    /\ mode = "CURSOR" /\ Handed.limit = fcall.size /\ IsNone(Handed.offset)

\* C29: execute accepts a ListQuery or a user-provided Select: with a
\* session at hand, a ListQuery is compiled and its statement handed to the
\* session, and a Select is handed to the session as it was given.
C29_SelectRunAsIs ==
    (ExecuteDone /\ ~IsNone(fcall.session)) =>
        /\ fcall.q_or_stmt.cls = "ListQuery" =>
               LET r == BuildListQuery(fcall.q_or_stmt.val)
               IN /\ fres.err = r.err
                  /\ r.err = "none" => Handed = r.val
        /\ fcall.q_or_stmt.cls = "Select" =>
               /\ fres.err = "none"
               /\ Handed = fcall.q_or_stmt.val

\* the call has no session to use: none passed, no provider, none given to
\* the constructor
NoSessionAnywhere ==
    IsNone(fcall.session) /\ IsNone(fcall.provider) /\ IsNone(fcall.specific_session)
\* nothing is raised before the session is looked up: get_list configures
\* its builder first, execute converts its argument first
ReachesSessionLookup ==
    IF fcall.fn = "get_list"
    THEN GetListQuery(model, fcall.flt, fcall.order_by, fcall.cursor, fcall.page,
                      fcall.size).err = "none"
    ELSE QueryToStmt(fcall.q_or_stmt).err = "none"

\* C30: the session a call uses is the one passed to the method if there is
\* one, else the configured SessionProvider's, else the constructor's; with
\* none of the three the call fails, with RuntimeError unless something was
\* raised before the session was looked up.
C30_SessionPrecedence ==
    (GetListDone \/ ExecuteDone) =>
        /\ fres.err = "none" =>
               fres.val.session =
                   IF ~IsNone(fcall.session) THEN Get(fcall.session)
                   ELSE IF ~IsNone(fcall.provider) THEN Get(fcall.provider)
                   ELSE Get(fcall.specific_session)
        /\ NoSessionAnywhere =>
               /\ fres.err # "none"
               /\ ReachesSessionLookup => fres.err = "RuntimeError"
\* a call without a session argument, on a repository that has both a
\* provider and a constructor session, has used the provider's
C30_Witness ==
    /\ (GetListDone \/ ExecuteDone) /\ fres.err = "none"
    /\ IsNone(fcall.session) /\ ~IsNone(fcall.provider) /\ ~IsNone(fcall.specific_session)
    /\ fres.val.session = Get(fcall.provider)

(* ================= further properties of the builder ==================== *)
\* C31: the keyset limit and the offset page/size are mutually exclusive: no
\* builder state holds a cursor_size together with a page or an offset_size,
\* whatever the order of the limit(), with_cursor() and paging() calls.
C31_PagingParamsExclusive ==
    ~(~IsNone(cursor_size) /\ (~IsNone(page) \/ ~IsNone(offset_size)))

\* C32: the cursor is set exactly when the mode is CURSOR, page and
\* offset_size are set exactly when the mode is OFFSET, and a new builder
\* has mode NONE and no cursor.
C32_FieldsFollowMode ==
    /\ (mode = "CURSOR") <=> ~IsNone(cursor)
    /\ (mode = "OFFSET") <=> ~IsNone(page)
    /\ (mode = "OFFSET") <=> ~IsNone(offset_size)
    /\ op = "new" => mode = "NONE" /\ IsNone(cursor)
\* with_cursor(None) has put the builder in CURSOR mode with the cursor {}
C32_Witness ==
    /\ op = "with_cursor" /\ err = "none" /\ IsNone(arg.cursor)
    /\ mode = "CURSOR" /\ cursor = Some(<<>>) /\ IsNone(page) /\ IsNone(offset_size)

\* C33: a builder call that raises (where, order_by, with_cursor, limit or
\* paging, in any state, with any arguments) leaves every builder field as
\* it was before the call.
C33_RaisingCallChangesNothing ==
    [][ (op' \in Mutators /\ err' # "none") => fields' = fields ]_vars
\* paging() was refused on an unsealed builder in CURSOR mode that holds a
\* filter, a cursor and a cursor_size, and no page
C33_Witness ==
    /\ op = "paging" /\ err = "ValueError" /\ ~sealed
    /\ mode = "CURSOR" /\ ~IsNone(filter) /\ ~IsNone(cursor) /\ ~IsNone(cursor_size)
    /\ IsNone(page) /\ IsNone(offset_size)

\* C34: where(None) on an unsealed builder raises nothing and changes no
\* field, also when a filter is already set.
C34_WhereNoneIsNoop ==
    [][ (op' = "where" /\ IsNone(arg'.flt) /\ ~sealed) =>
            (err' = "none" /\ fields' = fields) ]_vars
\* where(None) has returned on an unsealed builder that holds a filter
C34_Witness ==
    op = "where" /\ IsNone(arg.flt) /\ err = "none" /\ ~sealed /\ ~IsNone(filter)

(* ================= walks under any mix of directions ==================== *)
\* the rows were returned in the sort order of the walk's statements
ReturnedInSortOrder ==
    \A i, j \in 1..Len(Returned) :
        i < j => ~SortsAfterFrom(Returned[i], WalkOrdering,
                                 KeyTuple(Returned[j], WalkOrdering), 1)

\* C35: when the ordering columns jointly identify each row of the snapshot
\* (rows hold no nulls), following the cursors page after page, under any
\* mix of ascending and descending directions, returns every row exactly
\* once, in the statement's sort order, and the walk ends with a page
\* shorter than size.  While the walk goes on every page fetched is full,
\* holds rows of the snapshot not returned before, and continues the sort
\* order, so the walk ends after at most |snapshot| / size + 1 pages; once
\* it has ended the last page is short and every row was returned.
C35_MixedWalkComplete ==
    (fcall.fn = "get_list" /\ Len(pages) > 0 /\ OrderingIdentifiesRows) =>
        /\ fres.err = "none"
        /\ Range(Returned) \subseteq snapshot
        /\ Len(Returned) = Cardinality(Range(Returned))
        /\ ReturnedInSortOrder
        /\ \A i \in 1..(Len(pages) - 1) : Len(pages[i]) = fcall.size
        /\ Len(pages) <= (Cardinality(snapshot) \div fcall.size) + 1
        /\ ~fres.done => Len(pages[Len(pages)]) = fcall.size
        /\ fres.done => /\ Len(pages[Len(pages)]) < fcall.size
                        /\ EachRowOnce
\* a walk over three rows on (category asc, value2 desc, id asc) ended after
\* more than two pages, rows tying on category
C35_Witness ==
    /\ WalkEnded /\ OrderingIdentifiesRows
    /\ Len(WalkOrdering) = 3 /\ ~AllAscending
    /\ Cardinality(snapshot) = 3 /\ Len(pages) > 2
    /\ \E a, b \in snapshot : a # b /\ a.category = b.category

(* ==================== properties of _build_list_query ==================== *)
\* _build_list_query has just returned a statement
Built == op = "build" /\ err = "none" /\ ~IsNone(stmt)
\* the columns a seek predicate ranges over, in order
SeekCols(p) ==
    IF p.t = "cmp" THEN <<p.col>>
    ELSE IF p.t = "tuple_gt" THEN p.cols
    ELSE [i \in 1..Len(p.arms) |-> p.arms[i][i].col]
\* whether the predicate seeks downwards on its column i
SeekDesc(p, i) == p.t = "or" /\ p.arms[i][i].o = "<"

IsFilterCriterion(p) == p.t = "crit"

\* C38: limit(size) alone does not turn paging on: a builder whose mode is
\* still NONE compiles to a statement with no row-limit, no row-skip and no
\* seek predicate, also when it holds a cursor_size.
C38_LimitAloneDoesNotPage ==
    (Built /\ mode = "NONE") =>
        /\ IsNone(Get(stmt).limit)
        /\ IsNone(Get(stmt).offset)
        /\ \A i \in 1..Len(Get(stmt).whereclause) :
               IsFilterCriterion(Get(stmt).whereclause[i])
\* a builder on which limit(size) was called was compiled in mode NONE
C38_Witness ==
    /\ Built /\ mode = "NONE" /\ ~IsNone(cursor_size)
    /\ IsNone(Get(stmt).limit)

(* ============== properties of the builder under two callers ============= *)
\* the builder holds a cursor together with an offset page and size
HoldsCursorAndPage == ~IsNone(cursor) /\ ~IsNone(page) /\ ~IsNone(offset_size)

\* C39: the builder has no internal synchronization.  A call whose checks
\* run after the other call has returned is refused and writes nothing, so
\* no serial order of paging() and with_cursor() leaves both a cursor and a
\* page; the builder holds both only after the checks of the two calls both
\* ran before either call's assignments, and then both calls return.
C39_BothOnlyByInterleaving ==
    /\ [](HoldsCursorAndPage =>
            fcall.paging.pc = "returned" /\ fcall.with_cursor.pc = "returned")
    /\ [][ /\ (fcall.with_cursor.pc = "returned" /\ fcall.paging.pc = "called"
               /\ fcall'.paging.pc # "called")
              => (fcall'.paging.pc = "raised" /\ fields' = fields)
           /\ (fcall.paging.pc = "returned" /\ fcall.with_cursor.pc = "called"
               /\ fcall'.with_cursor.pc # "called")
              => (fcall'.with_cursor.pc = "raised" /\ fields' = fields) ]_vars
\* both calls have returned and the builder holds a cursor, a page and an
\* offset_size
C39_Witness ==
    /\ fcall.fn = "race"
    /\ fcall.paging.pc = "returned" /\ fcall.with_cursor.pc = "returned"
    /\ HoldsCursorAndPage

(* ==================== properties of apply_pagination ==================== *)
\* the cursor string of the request is absent or cannot be decoded
Undecodable ==
    /\ fcall.fn = "apply_pagination" /\ fcall.cls = "CursorPagination"
    /\ \/ IsNone(fcall.cursor)
       \/ Get(fcall.cursor).layer \in {"badb64", "badutf8", "badjson"}

\* C40: apply_pagination with a CursorPagination whose cursor string cannot
\* be decoded (bad base64, bad UTF-8 or bad JSON), or is absent, raises
\* nothing for the string: on an unsealed builder that has an ordering and is
\* not in OFFSET mode, with limit >= 1, the call returns with the builder in
\* CURSOR mode, its cursor {} and its cursor_size the limit; whatever the
\* builder, the only errors are the builder's own ValueError and
\* RuntimeError, never a decoding error.
C40_BadCursorIsFirstPage ==
    [][ (Undecodable /\ ~fres.done /\ fres'.done) =>
            /\ err' \in {"none", "ValueError", "RuntimeError"}
            /\ err' = "RuntimeError" => sealed
            /\ err' = "ValueError" =>
                   (mode = "OFFSET" \/ ~Truthy(order_items) \/ fcall.limit < 1)
            /\ (~sealed /\ mode # "OFFSET" /\ Truthy(order_items)) =>
                   /\ mode' = "CURSOR" /\ cursor' = Some(<<>>)
                   /\ fcall.limit >= 1 =>
                          (err' = "none" /\ cursor_size' = Some(fcall.limit)) ]_vars
\* a request whose cursor string is not valid base64 was served as a first
\* page
C40_Witness ==
    /\ fcall.fn = "apply_pagination" /\ fcall.cls = "CursorPagination" /\ fres.done
    /\ ~IsNone(fcall.cursor) /\ Get(fcall.cursor).layer = "badb64"
    /\ err = "none" /\ mode = "CURSOR" /\ cursor = Some(<<>>)
    /\ cursor_size = Some(fcall.limit)

====
